---------------------------- MODULE Spec2Model ----------------------------
(***************************************************************************)
(* A model of the XTU EMS API toolkit's credential-token lifecycle:        *)
(*   - tokenizer.py  : serialize_token / deserialize_token                 *)
(*   - sso_login.py  : rsa_encrypt, get_config, sso_auth                   *)
(*   - ems_auth.py   : ems_auth_with_sso                                   *)
(*   - student_info.py, exam_schedule.py, classroom_availability.py,       *)
(*     course_schedule.py, gpa.py, transcript.py : retrieval operations    *)
(* Text is modelled as sequences of one-character strings, bytes as        *)
(* sequences of integers 0..255, so that the conversions (JSON, base64,    *)
(* hexadecimal, prefix tests) are computed and not assumed.                *)
(***************************************************************************)
EXTENDS Integers, Sequences, FiniteSets, TLC

VARIABLES
    \* ---- token codec (tokenizer.py) ----
    tkPc,        \* "jar" | "token" | "decoded" | "reencoded"
    tkJar,       \* the cookie jar handed to serialize_token
    tkFlag,      \* the compressed flag of the run
    tkToken,     \* the token serialize_token returned
    tkDecFlag,   \* the compressed flag handed to deserialize_token
    tkOut,       \* the result of deserialize_token: [err, jar]
    tkToken2,    \* the token of re-serializing the decoded jar
    \* ---- sso_auth attempts (sso_login.py) ----
    sso,         \* attempt -> the attempt's local state
    \* ---- ems_auth_with_sso (ems_auth.py) ----
    ems,         \* the state of one exchange call
    \* ---- rsa_encrypt called on its own (sso_login.py) ----
    rsa,         \* the arguments and the results of two calls
    \* ---- ems_get_info (student_info.py) ----
    info,        \* the state of one call
    \* ---- ems_get_exam_schedule (exam_schedule.py) ----
    examCall,    \* the state of one call
    \* ---- ems_get_classsroom_avaliability (classroom_availability.py) ----
    roomCall,    \* the state of one call
    \* ---- ems_get_course_schedule (course_schedule.py) ----
    courseCall,  \* the state of one call
    \* ---- ems_get_gpa (gpa.py) ----
    gpaCall,     \* the state of one call
    \* ---- ems_download_transcript (transcript.py) ----
    pdfCall      \* the state of one call

tkVars == <<tkPc, tkJar, tkFlag, tkToken, tkDecFlag, tkOut, tkToken2>>
queryVars == <<roomCall, courseCall, gpaCall, pdfCall>>
libVars == <<rsa, info, examCall, queryVars>>
vars == <<tkPc, tkJar, tkFlag, tkToken, tkDecFlag, tkOut, tkToken2, sso, ems,
          rsa, info, examCall, roomCall, courseCall, gpaCall,
          pdfCall>>

\* ------------------------------------------------------------------------
\* Bounds of the model.
\* ------------------------------------------------------------------------
\* The largest number of cookies.set calls that build an input cookie jar.
MaxCookies == 2

\* The largest number of weeks, and of sections, a classroom query lists.
MaxListLen == 2

\* ------------------------------------------------------------------------
\* Text and bytes.
\* ------------------------------------------------------------------------
\* The printable ASCII characters, code points 32..126 in order (the grave
\* accent, code point 96, is written <grave>).
Printable ==
    <<" ", "!", "\"", "#", "$", "%", "&", "'", "(", ")", "*", "+", ",", "-", ".", "/", "0", "1", "2", "3", "4", "5", "6", "7", "8", "9", ":", ";", "<", "=", ">", "?", "@", "A", "B", "C", "D", "E", "F", "G", "H", "I", "J", "K", "L", "M", "N", "O", "P", "Q", "R", "S", "T", "U", "V", "W", "X", "Y", "Z", "[", "\\", "]", "^", "_", "<grave>", "a", "b", "c", "d", "e", "f", "g", "h", "i", "j", "k", "l", "m", "n", "o", "p", "q", "r", "s", "t", "u", "v", "w", "x", "y", "z", "{", "|", "}", "~">>

\* ord() and chr() on the printable ASCII range (a table, indexed once).
OrdTable ==
    [c \in {Printable[i] : i \in 1..Len(Printable)} |->
        31 + (CHOOSE i \in 1..Len(Printable) : Printable[i] = c)]

Ord(c) == OrdTable[c]

\* A byte outside the printable range decodes to a character no token of
\* the model contains (a control or non-ASCII character).
Chr(b) == IF b \in 32..126 THEN Printable[b - 31] ELSE "<?>"

\* str.encode("utf-8") on ASCII text.
Utf8Encode(s) == [i \in 1..Len(s) |-> Ord(s[i])]

\* bytes.decode("utf-8"): a byte >= 128 that starts no valid sequence raises
\* UnicodeDecodeError (multi-byte sequences are outside the alphabet).
Utf8Valid(bs) == \A i \in 1..Len(bs) : bs[i] < 128

Utf8Decode(bs) == [i \in 1..Len(bs) |-> Chr(bs[i])]

\* str.startswith(prefix).
StartsWith(s, p) == Len(p) <= Len(s) /\ SubSeq(s, 1, Len(p)) = p

\* str.index(sub, start), 0-based as in Python; NotFound stands for the
\* ValueError("substring not found") that str.index raises.
NotFound == -1

IndexFrom(s, sub, start) ==
    LET hits == {i \in start..(Len(s) - Len(sub)) :
                    SubSeq(s, i + 1, i + Len(sub)) = sub}
    IN  IF hits = {} THEN NotFound
        ELSE CHOOSE i \in hits : \A j \in hits : i <= j

\* s[a:b] with 0 <= a <= b <= len(s).
Slice(s, a, b) == SubSeq(s, a + 1, b)

\* ------------------------------------------------------------------------
\* JSON values and json.dumps / json.loads.
\* ------------------------------------------------------------------------
JStr(s) == [t |-> "str", v |-> s]
JArr(items) == [t |-> "arr", v |-> items]
\* A dict: its (key, value) pairs in insertion order, keys unique.
JObj(members) == [t |-> "obj", v |-> members]

\* json.dumps of a str (ensure_ascii): quote and backslash are escaped.
RECURSIVE JsonEscape(_)
JsonEscape(s) ==
    IF s = <<>> THEN <<>>
    ELSE (IF Head(s) = "\"" THEN <<"\\", "\"">>
          ELSE IF Head(s) = "\\" THEN <<"\\", "\\">>
          ELSE <<Head(s)>>) \o JsonEscape(Tail(s))

JsonString(s) == <<"\"">> \o JsonEscape(s) \o <<"\"">>

\* json.dumps with the default separators (", " and ": ").
RECURSIVE json_dumps(_)
RECURSIVE DumpItems(_)
RECURSIVE DumpMembers(_)
DumpItems(items) ==
    IF items = <<>> THEN <<>>
    ELSE json_dumps(Head(items))
         \o (IF Len(items) > 1 THEN <<",", " ">> ELSE <<>>)
         \o DumpItems(Tail(items))

DumpMembers(members) ==
    IF members = <<>> THEN <<>>
    ELSE JsonString(Head(members)[1]) \o <<":", " ">>
         \o json_dumps(Head(members)[2])
         \o (IF Len(members) > 1 THEN <<",", " ">> ELSE <<>>)
         \o DumpMembers(Tail(members))

json_dumps(val) ==
    CASE val.t = "str" -> JsonString(val.v)
      [] val.t = "arr" -> <<"[">> \o DumpItems(val.v) \o <<"]">>
      [] val.t = "obj" -> <<"{">> \o DumpMembers(val.v) \o <<"}">>

\* The result of a parsing step: the value and the 1-based position after it.
ParseOk(val, pos) == [ok |-> TRUE, val |-> val, pos |-> pos]
ParseFail(pos) == [ok |-> FALSE, val |-> JStr(<<>>), pos |-> pos]

RECURSIVE SkipWs(_, _)
SkipWs(s, i) == IF i <= Len(s) /\ s[i] = " " THEN SkipWs(s, i + 1) ELSE i

\* dict[key] = value: an existing key keeps its place and takes the value.
ObjPut(members, key, val) ==
    IF \E i \in 1..Len(members) : members[i][1] = key
    THEN [i \in 1..Len(members) |->
            IF members[i][1] = key THEN <<key, val>> ELSE members[i]]
    ELSE Append(members, <<key, val>>)

ObjHas(members, key) == \E i \in 1..Len(members) : members[i][1] = key

ObjGet(members, key) ==
    members[CHOOSE i \in 1..Len(members) : members[i][1] = key][2]

\* The characters after a backslash that the model's alphabet can decode
\* (\b, \f, \n, \r, \t and \uXXXX give characters outside the alphabet).
JsonUnescapable == {"\"", "\\", "/"}

RECURSIVE ParseString(_, _, _)
ParseString(s, i, acc) ==
    IF i > Len(s) THEN ParseFail(i)
    ELSE IF s[i] = "\"" THEN ParseOk(JStr(acc), i + 1)
    ELSE IF s[i] = "\\"
         THEN IF i + 1 <= Len(s) /\ s[i + 1] \in JsonUnescapable
              THEN ParseString(s, i + 2, Append(acc, s[i + 1]))
              ELSE ParseFail(i)
    ELSE ParseString(s, i + 1, Append(acc, s[i]))

RECURSIVE ParseValue(_, _)
RECURSIVE ParseItems(_, _, _)
RECURSIVE ParseMembers(_, _, _)
\* After "[" or ",": one value, then "," or "]".
ParseItems(s, i, acc) ==
    LET r == ParseValue(s, i)
        j == SkipWs(s, r.pos)
    IN  IF ~r.ok \/ j > Len(s) THEN ParseFail(j)
        ELSE IF s[j] = "," THEN ParseItems(s, j + 1, Append(acc, r.val))
        ELSE IF s[j] = "]" THEN ParseOk(JArr(Append(acc, r.val)), j + 1)
        ELSE ParseFail(j)

\* After "{" or ",": a string key, ":", one value, then "," or "}".
ParseMembers(s, i, acc) ==
    LET k == SkipWs(s, i)
    IN  IF k > Len(s) \/ s[k] # "\"" THEN ParseFail(k)
        ELSE
        LET key == ParseString(s, k + 1, <<>>)
            c == SkipWs(s, key.pos)
        IN  IF ~key.ok \/ c > Len(s) \/ s[c] # ":" THEN ParseFail(c)
            ELSE
            LET r == ParseValue(s, c + 1)
                j == SkipWs(s, r.pos)
                more == ObjPut(acc, key.val.v, r.val)
            IN  IF ~r.ok \/ j > Len(s) THEN ParseFail(j)
                ELSE IF s[j] = "," THEN ParseMembers(s, j + 1, more)
                ELSE IF s[j] = "}" THEN ParseOk(JObj(more), j + 1)
                ELSE ParseFail(j)

ParseValue(s, i) ==
    LET j == SkipWs(s, i)
    IN  IF j > Len(s) THEN ParseFail(j)
        ELSE IF s[j] = "\"" THEN ParseString(s, j + 1, <<>>)
        ELSE IF s[j] = "["
             THEN LET k == SkipWs(s, j + 1)
                  IN  IF k <= Len(s) /\ s[k] = "]"
                      THEN ParseOk(JArr(<<>>), k + 1)
                      ELSE ParseItems(s, j + 1, <<>>)
        ELSE IF s[j] = "{"
             THEN LET k == SkipWs(s, j + 1)
                  IN  IF k <= Len(s) /\ s[k] = "}"
                      THEN ParseOk(JObj(<<>>), k + 1)
                      ELSE ParseMembers(s, j + 1, <<>>)
        ELSE ParseFail(j)

\* json.loads: one value and nothing but blanks after it; ok = FALSE stands
\* for json.JSONDecodeError.
json_loads(text) ==
    LET r == ParseValue(text, 1)
    IN  IF r.ok /\ SkipWs(text, r.pos) > Len(text) THEN r ELSE ParseFail(r.pos)

\* ------------------------------------------------------------------------
\* base64.urlsafe_b64encode / urlsafe_b64decode and bz2.
\* ------------------------------------------------------------------------
\* The URL-safe alphabet: the character of each 6-bit value 0..63.
B64 ==
    <<"A", "B", "C", "D", "E", "F", "G", "H", "I", "J", "K", "L", "M", "N", "O", "P", "Q", "R", "S", "T", "U", "V", "W", "X", "Y", "Z", "a", "b", "c", "d", "e", "f", "g", "h", "i", "j", "k", "l", "m", "n", "o", "p", "q", "r", "s", "t", "u", "v", "w", "x", "y", "z", "0", "1", "2", "3", "4", "5", "6", "7", "8", "9", "-", "_">>

B64Char(v) == B64[v + 1]

\* Three bytes give four characters; a last group of one or two bytes is
\* padded with "=". Character k of the output belongs to group (k-1) \div 4.
urlsafe_b64encode(bs) ==
    LET n == Len(bs)
        byte(j) == IF j <= n THEN bs[j] ELSE 0
    IN  [k \in 1..(4 * ((n + 2) \div 3)) |->
            LET g == 3 * ((k - 1) \div 4)
                r == (k - 1) % 4
            IN  CASE r = 0 -> B64Char(byte(g + 1) \div 4)
                  [] r = 1 -> B64Char((byte(g + 1) % 4) * 16 + byte(g + 2) \div 16)
                  [] r = 2 -> IF g + 2 > n THEN "="
                              ELSE B64Char((byte(g + 2) % 16) * 4 + byte(g + 3) \div 64)
                  [] r = 3 -> IF g + 3 > n THEN "="
                              ELSE B64Char(byte(g + 3) % 64)]

\* The 6-bit value of a character, or -1: urlsafe_b64decode translates "-"
\* and "_" to "+" and "/" and then decodes the standard alphabet, so "+" and
\* "/" are accepted as well.
B64ValueTable ==
    [c \in {Printable[i] : i \in 1..Len(Printable)} |->
        IF \E v \in 0..63 : B64[v + 1] = c
        THEN CHOOSE v \in 0..63 : B64[v + 1] = c
        ELSE IF c = "+" THEN 62 ELSE IF c = "/" THEN 63 ELSE -1]

B64Value(c) == IF c \in DOMAIN B64ValueTable THEN B64ValueTable[c] ELSE -1

\* binascii.a2b_base64 in its default, non-strict mode: characters outside
\* the alphabet are skipped; with 2 or 3 characters of a group read, a "="
\* that completes the group's padding ends the input; a group left open at
\* the end raises binascii.Error (ok = FALSE).
urlsafe_b64decode(s) ==
    LET isData(i) == B64Value(s[i]) >= 0
        \* quad_pos and pads when the scan reaches position i
        dataBefore(i) == Cardinality({j \in 1..(i - 1) : isData(j)})
        lastData(i) ==
            IF \E j \in 1..(i - 1) : isData(j)
            THEN CHOOSE j \in 1..(i - 1) :
                    isData(j) /\ \A k \in (j + 1)..(i - 1) : ~isData(k)
            ELSE 0
        padsBefore(i) ==
            Cardinality({j \in (lastData(i) + 1)..(i - 1) : s[j] = "="})
        stops(i) ==
            /\ s[i] = "="
            /\ (dataBefore(i) % 4) >= 2
            /\ (dataBefore(i) % 4) + padsBefore(i) + 1 >= 4
        stop == IF \E i \in 1..Len(s) : stops(i)
                THEN CHOOSE i \in 1..Len(s) :
                        stops(i) /\ \A j \in 1..(i - 1) : ~stops(j)
                ELSE Len(s) + 1
        data == SelectSeq(SubSeq(s, 1, stop - 1), LAMBDA c : B64Value(c) >= 0)
        quad == Len(data) % 4
        val(j) == B64Value(data[j])
        nbytes == 3 * (Len(data) \div 4)
                    + (IF quad = 2 THEN 1 ELSE IF quad = 3 THEN 2 ELSE 0)
    IN  IF stop > Len(s) /\ quad # 0 THEN [ok |-> FALSE, bytes |-> <<>>]
        ELSE [ok |-> TRUE,
              bytes |-> [k \in 1..nbytes |->
                  LET g == 4 * ((k - 1) \div 3)
                      r == (k - 1) % 3
                  IN  CASE r = 0 -> val(g + 1) * 4 + val(g + 2) \div 16
                        [] r = 1 -> (val(g + 2) % 16) * 16 + val(g + 3) \div 4
                        [] r = 2 -> (val(g + 3) % 4) * 64 + val(g + 4)]]

\* The header of a bzip2 stream at the default compression level: "BZh9".
Bz2Magic == <<66, 90, 104, 57>>

\* bz2.compress: the block coding is lossless and is not modelled; the
\* stream is its header followed by the payload.
bz2_compress(data) == Bz2Magic \o data

\* bz2.decompress: empty input gives empty output; input that does not start
\* a bzip2 stream raises OSError (ok = FALSE).
bz2_decompress(data) ==
    IF data = <<>> THEN [ok |-> TRUE, bytes |-> <<>>]
    ELSE IF StartsWith(data, Bz2Magic)
    THEN [ok |-> TRUE, bytes |-> SubSeq(data, Len(Bz2Magic) + 1, Len(data))]
    ELSE [ok |-> FALSE, bytes |-> <<>>]

\* ------------------------------------------------------------------------
\* Cookie jars (requests.cookies.RequestsCookieJar).
\* ------------------------------------------------------------------------
\* A cookie is [name, value, domain, path]. A jar keeps its cookies by
\* domain, then path, then name, each level in first-insertion order; the
\* model holds a jar as the sequence of its cookies in iteration order.
Cookie(n, v, d, p) == [name |-> n, value |-> v, domain |-> d, path |-> p]

SameKey(a, b) == a.name = b.name /\ a.domain = b.domain /\ a.path = b.path

EmptyJar == <<>>

InsertAfter(jar, i, c) == SubSeq(jar, 1, i) \o <<c>> \o SubSeq(jar, i + 1, Len(jar))

\* The last position of a jar whose cookie is in the set `group`, or 0.
LastIndexIn(jar, group) ==
    LET hits == {i \in 1..Len(jar) : jar[i] \in group}
    IN  IF hits = {} THEN 0 ELSE CHOOSE i \in hits : \A j \in hits : j <= i

\* A slip: the jar is a list, and set adds an entry whatever it holds.
JarSetAppend(jar, c) == Append(jar, c)

\* RequestsCookieJar.set(name, value, domain=, path=): the cookie replaces
\* the one of the same (domain, path, name), or is added to its group.
JarSet(jar, c) ==
    LET held == {jar[i] : i \in 1..Len(jar)}
        same == LastIndexIn(jar, {x \in held : SameKey(x, c)})
        inPath == LastIndexIn(jar, {x \in held : x.domain = c.domain /\ x.path = c.path})
        inDomain == LastIndexIn(jar, {x \in held : x.domain = c.domain})
    IN  IF same > 0 THEN [jar EXCEPT ![same] = c]
        ELSE IF inPath > 0 THEN InsertAfter(jar, inPath, c)
        ELSE IF inDomain > 0 THEN InsertAfter(jar, inDomain, c)
        ELSE Append(jar, c)

\* The cookies of a jar as a set of four-tuples.
JarTuples(jar) == {jar[i] : i \in 1..Len(jar)}

\* No two entries of the jar share (name, domain, path).
JarKeysUnique(jar) ==
    \A i, j \in 1..Len(jar) : SameKey(jar[i], jar[j]) => i = j

\* ------------------------------------------------------------------------
\* tokenizer.py
\* ------------------------------------------------------------------------
FieldKey == <<"k", "e", "y">>
FieldValue == <<"v", "a", "l", "u", "e">>
FieldHost == <<"h", "o", "s", "t">>
FieldPath == <<"p", "a", "t", "h">>

\* A slip in lines 19-24: host and path take each other's attribute.
CookieRecordSwapped(c) ==
    JObj(<< <<FieldKey, JStr(c.name)>>, <<FieldValue, JStr(c.value)>>,
            <<FieldHost, JStr(c.path)>>, <<FieldPath, JStr(c.domain)>> >>)

\* One record of cookies_list.
CookieRecord(c) ==
    JObj(<< <<FieldKey, JStr(c.name)>>, <<FieldValue, JStr(c.value)>>,
            <<FieldHost, JStr(c.domain)>>, <<FieldPath, JStr(c.path)>> >>)

\* A slip in lines 18-26: the records are listed last cookie first.
serialize_tokenReversed(cookies, compressed) ==
    LET n == Len(cookies)
        cookies_list == [i \in 1..n |-> CookieRecord(cookies[n + 1 - i])]
        serialized_token == json_dumps(JArr(cookies_list))
    IN  IF compressed
        THEN urlsafe_b64encode(bz2_compress(Utf8Encode(serialized_token)))
        ELSE serialized_token

serialize_token(cookies, compressed) ==
    LET cookies_list == [i \in 1..Len(cookies) |-> CookieRecord(cookies[i])]
        serialized_token == json_dumps(JArr(cookies_list))
    IN  IF compressed
        THEN urlsafe_b64encode(bz2_compress(Utf8Encode(serialized_token)))
        ELSE serialized_token

\* The result of a call: err = "none" and the value, or the exception raised.
Returned(jar) == [err |-> "none", jar |-> jar]
Raised(kind) == [err |-> kind, jar |-> EmptyJar]

\* What iterating json.loads' result yields: the items of a list, the keys
\* of a dict, the characters of a str.
IterItems(val) ==
    CASE val.t = "arr" -> val.v
      [] val.t = "obj" -> [i \in 1..Len(val.v) |-> JStr(val.v[i][1])]
      [] val.t = "str" -> [i \in 1..Len(val.v) |-> JStr(<<val.v[i]>>)]

AllFields == <<FieldKey, FieldValue, FieldHost, FieldPath>>

\* The for loop of deserialize_token: cookie_dict[...] of something that is
\* no dict raises TypeError, of a dict without the field KeyError.
RECURSIVE SetCookies(_, _)
SetCookies(items, cookies) ==
    IF items = <<>> THEN Returned(cookies)
    ELSE LET cookie_dict == Head(items)
         IN  IF cookie_dict.t # "obj" THEN Raised("TypeError")
             ELSE IF \E i \in 1..4 : ~ObjHas(cookie_dict.v, AllFields[i])
             THEN Raised("KeyError")
             ELSE IF \E i \in 1..4 : ObjGet(cookie_dict.v, AllFields[i]).t # "str"
             THEN Raised("TypeError")
             ELSE SetCookies(Tail(items),
                     JarSet(cookies,
                            Cookie(ObjGet(cookie_dict.v, FieldKey).v,
                                   ObjGet(cookie_dict.v, FieldValue).v,
                                   ObjGet(cookie_dict.v, FieldHost).v,
                                   ObjGet(cookie_dict.v, FieldPath).v)))

\* A slip in line 56: the records are set last record first.
LoadCookiesLastFirst(token) ==
    LET cookies_list == json_loads(token)
        items == IterItems(cookies_list.val)
    IN  IF ~cookies_list.ok THEN Raised("JSONDecodeError")
        ELSE SetCookies([i \in 1..Len(items) |-> items[Len(items) + 1 - i]],
                        EmptyJar)

LoadCookies(token) ==
    LET cookies_list == json_loads(token)
    IN  IF ~cookies_list.ok THEN Raised("JSONDecodeError")
        ELSE SetCookies(IterItems(cookies_list.val), EmptyJar)

\* A slip in lines 48-54: the flag is ignored and a token that begins like
\* an encoded bzip2 stream is taken as compressed.
deserialize_tokenAutodetect(token, compressed) ==
    IF StartsWith(token, <<"Q", "l", "p", "o">>)
    THEN LET decoded == urlsafe_b64decode(token)
             plain == bz2_decompress(decoded.bytes)
         IN  IF ~decoded.ok THEN Raised("binascii.Error")
             ELSE IF ~plain.ok THEN Raised("OSError")
             ELSE IF ~Utf8Valid(plain.bytes) THEN Raised("UnicodeDecodeError")
             ELSE LoadCookies(Utf8Decode(plain.bytes))
    ELSE LoadCookies(token)

deserialize_token(token, compressed) ==
    IF compressed
    THEN LET decoded == urlsafe_b64decode(token)
             plain == bz2_decompress(decoded.bytes)
         IN  IF ~decoded.ok THEN Raised("binascii.Error")
             ELSE IF ~plain.ok THEN Raised("OSError")
             ELSE IF ~Utf8Valid(plain.bytes) THEN Raised("UnicodeDecodeError")
             ELSE LoadCookies(Utf8Decode(plain.bytes))
    ELSE LoadCookies(token)

\* ------------------------------------------------------------------------
\* sso_login.py: rsa_encrypt
\* ------------------------------------------------------------------------
HexDigits ==
    <<"0", "1", "2", "3", "4", "5", "6", "7", "8", "9", "a", "b", "c", "d", "e", "f">>

HexDigitsUpper ==
    <<"0", "1", "2", "3", "4", "5", "6", "7", "8", "9", "A", "B", "C", "D", "E", "F">>

IsHexDigit(c) == \E v \in 1..16 : HexDigits[v] = c \/ HexDigitsUpper[v] = c

HexDigitValue(c) ==
    (CHOOSE v \in 1..16 : HexDigits[v] = c \/ HexDigitsUpper[v] = c) - 1

\* int(text, 16) on an unsigned run of hexadecimal digits; anything else
\* raises ValueError (IsHex is FALSE).
IsHex(text) == text # <<>> /\ \A i \in 1..Len(text) : IsHexDigit(text[i])

RECURSIVE HexToInt(_)
HexToInt(text) ==
    IF text = <<>> THEN 0
    ELSE 16 * HexToInt(SubSeq(text, 1, Len(text) - 1))
            + HexDigitValue(text[Len(text)])

\* A slip in line 28: the digits are rendered in capitals.
RECURSIVE IntToHexUpper(_)
IntToHexUpper(n) ==
    IF n < 16 THEN <<HexDigitsUpper[n + 1]>>
    ELSE Append(IntToHexUpper(n \div 16), HexDigitsUpper[(n % 16) + 1])

\* hex(n)[2:] for n >= 0: lowercase, no prefix, no leading zeros ("0" for 0).
RECURSIVE IntToHex(_)
IntToHex(n) ==
    IF n < 16 THEN <<HexDigits[n + 1]>>
    ELSE Append(IntToHex(n \div 16), HexDigits[(n % 16) + 1])

\* int.from_bytes(bs, "big").
RECURSIVE BytesToInt(_)
BytesToInt(bs) ==
    IF bs = <<>> THEN 0
    ELSE 256 * BytesToInt(SubSeq(bs, 1, Len(bs) - 1)) + bs[Len(bs)]

\* pow(base, exponent, modulus) for exponent >= 0 and modulus > 0, by
\* repeated squaring.
RECURSIVE ModPow(_, _, _)
ModPow(base, exponent, modulus) ==
    IF exponent = 0 THEN 1 % modulus
    ELSE LET half == ModPow(base, exponent \div 2, modulus)
             sq == (half * half) % modulus
         IN  IF exponent % 2 = 1 THEN (sq * (base % modulus)) % modulus ELSE sq

rsa_encrypt(encrypt_exponent, modulus, plaintext) ==
    LET message_int == BytesToInt(Utf8Encode(plaintext))
        ciphertext_int == ModPow(message_int, encrypt_exponent, modulus)
    IN  IntToHex(ciphertext_int)

\* ------------------------------------------------------------------------
\* sso_login.py: get_config
\* ------------------------------------------------------------------------
login_url ==
    <<"h", "t", "t", "p", "s", ":", "/", "/", "p", "o", "r", "t", "a", "l", "2", "0", "2", "0", ".", "x", "t", "u", ".", "e", "d", "u", ".", "c", "n", "/", "c", "a", "s", "/", "l", "o", "g", "i", "n", "?", "s", "e", "r", "v", "i", "c", "e", "=", "h", "t", "t", "p", "s", "%", "3", "A", "%", "2", "F", "%", "2", "F", "p", "o", "r", "t", "a", "l", "2", "0", "2", "0", ".", "x", "t", "u", ".", "e", "d", "u", ".", "c", "n", "%", "2", "F", "a", "p", "p", "l", "i", "c", "a", "t", "i", "o", "n", "-", "c", "e", "n", "t", "e", "r">>

key_url ==
    <<"h", "t", "t", "p", "s", ":", "/", "/", "p", "o", "r", "t", "a", "l", "2", "0", "2", "0", ".", "x", "t", "u", ".", "e", "d", "u", ".", "c", "n", "/", "c", "a", "s", "/", "v", "2", "/", "g", "e", "t", "P", "u", "b", "K", "e", "y">>

login_success_url_prefix ==
    <<"h", "t", "t", "p", "s", ":", "/", "/", "p", "o", "r", "t", "a", "l", "2", "0", "2", "0", ".", "x", "t", "u", ".", "e", "d", "u", ".", "c", "n", "/", "a", "p", "p", "l", "i", "c", "a", "t", "i", "o", "n", "-", "c", "e", "n", "t", "e", "r">>

modify_password_url_prefix ==
    <<"h", "t", "t", "p", "s", ":", "/", "/", "p", "o", "r", "t", "a", "l", "2", "0", "2", "0", ".", "x", "t", "u", ".", "e", "d", "u", ".", "c", "n", "/", "i", "m", "/", "s", "e", "c", "u", "r", "i", "t", "y", "c", "e", "n", "t", "e", "r", "/", "m", "o", "d", "i", "f", "y", "P", "w", "d", "/", "i", "n", "d", "e", "x", ".", "z", "f">>

\* The literal that precedes the execution token in the login page.
ExecutionMarker ==
    <<"n", "a", "m", "e", "=", "\"", "e", "x", "e", "c", "u", "t", "i", "o", "n", "\"", " ", "v", "a", "l", "u", "e", "=", "\"">>

\* ------------------------------------------------------------------------
\* Exceptions, requests and responses.
\* ------------------------------------------------------------------------
\* An exception: its class and its args (a tuple of strings).
Exc(type, args) == [type |-> type, args |-> args]
NoError == Exc("none", <<>>)

\* One call of session.get / session.post.
Request(method, url, allow_redirects) ==
    [method |-> method, url |-> url, allow_redirects |-> allow_redirects]

\* What the call returns: with redirects followed, the last response of the
\* chain; cookies are the cookies the server set on the way, in order.
Response(status_code, has_location, location, text, url, cookies) ==
    [status_code |-> status_code, has_location |-> has_location,
     location |-> location, text |-> text, url |-> url, cookies |-> cookies]

\* The session stores every cookie a response sets (extract_cookies_to_jar).
RECURSIVE JarUpdate(_, _)
JarUpdate(jar, cs) ==
    IF cs = <<>> THEN jar ELSE JarUpdate(JarSet(jar, Head(cs)), Tail(cs))

\* ------------------------------------------------------------------------
\* The environment of the model: what the servers may answer.
\* ------------------------------------------------------------------------
Statuses == {200, 302, 403, 500}

\* Cookies a server may set: two values of one (name, domain, path) and a
\* second cookie of the same domain.
ServerCookies ==
    {Cookie(<<"s">>, <<"1">>, <<"x">>, <<"/">>),
     Cookie(<<"s">>, <<"\"", "\\">>, <<"x">>, <<"/">>),
     Cookie(<<"t">>, <<"1">>, <<"x">>, <<"/", "a">>)}

\* A response sets no cookie or one.
SetCookieHeaders == {<<>>} \cup {<<c>> : c \in ServerCookies}

FieldModulus == <<"m", "o", "d", "u", "l", "u", "s">>
FieldExponent == <<"e", "x", "p", "o", "n", "e", "n", "t">>

KeyBody(modulus, exponent) ==
    json_dumps(JObj(<< <<FieldModulus, JStr(modulus)>>,
                       <<FieldExponent, JStr(exponent)>> >>))

\* Bodies of the key endpoint with a hexadecimal modulus and exponent: the
\* toy key (e = 17, n = 3233, in capitals) and a second key (e = 3, n = 33).
HexKeyBodies ==
    {KeyBody(<<"C", "A", "1">>, <<"1", "1">>),
     KeyBody(<<"2", "1">>, <<"3">>)}

\* Other bodies: a modulus that is no hexadecimal number, a body without
\* the exponent, and a body that is no JSON.
KeyBodies ==
    HexKeyBodies
    \cup {KeyBody(<<"z", "z">>, <<"1", "1">>),
          json_dumps(JObj(<< <<FieldModulus, JStr(<<"c", "a", "1">>)>> >>)),
          <<"<", ">">>}

LoginPage(before, value, after) == before \o ExecutionMarker \o value \o after

\* Login pages with an execution token: one inside a tag, and a page that
\* starts with the marker.
PagesWithToken ==
    {LoginPage(<<"<">>, <<"e", "1">>, <<"\"", ">">>),
     LoginPage(<<>>, <<"a", "b", "c", "1", "2", "3">>, <<"\"">>)}

\* A page whose token is empty, a page without the marker, and a page whose
\* token has no closing quote.
PageWithEmptyToken == LoginPage(<<"<">>, <<>>, <<"\"", ">">>)
PageWithoutMarker == <<"<", "h", "t", "m", "l", ">">>
PageWithOpenToken == LoginPage(<<"<">>, <<"e", "1">>, <<>>)

LoginPages ==
    PagesWithToken \cup {PageWithEmptyToken, PageWithoutMarker, PageWithOpenToken}

\* Location headers of the login POST: under the success prefix (exactly,
\* with a query, with more characters and no separator), under the
\* password-change prefix, and targets that match neither.
Locations ==
    {login_success_url_prefix,
     login_success_url_prefix \o <<"?", "t", "=", "1">>,
     login_success_url_prefix \o <<"2">>,
     modify_password_url_prefix,
     modify_password_url_prefix \o <<"?", "a">>,
     SubSeq(login_success_url_prefix, 1, Len(login_success_url_prefix) - 1),
     <<"H">> \o Tail(login_success_url_prefix),
     <<>>}

KeyResponses ==
    {Response(st, FALSE, <<>>, body, key_url, cs) :
        st \in Statuses, body \in KeyBodies, cs \in SetCookieHeaders}

LoginPageResponses ==
    {Response(st, FALSE, <<>>, body, login_url, cs) :
        st \in Statuses, body \in LoginPages, cs \in SetCookieHeaders}

LoginPostResponses ==
    {Response(st, TRUE, loc, <<>>, login_url, cs) :
        st \in Statuses, loc \in Locations, cs \in SetCookieHeaders}
    \cup {Response(st, FALSE, <<>>, <<>>, login_url, cs) :
        st \in Statuses, cs \in SetCookieHeaders}

RedirectResponses(url) ==
    {Response(st, FALSE, <<>>, <<>>, url, cs) :
        st \in Statuses, cs \in SetCookieHeaders}

Usernames == {"202105566123", "202105566124"}
Passwords == {<<"A">>, <<"A", "B">>}

\* ------------------------------------------------------------------------
\* sso_login.py: sso_auth
\* ------------------------------------------------------------------------
\* The outcome of a step: the exception it raises (NoError: none) and the
\* value it computes.
StepOk(val) == [err |-> NoError, val |-> val]
StepRaise(type, args, val) == [err |-> Exc(type, args), val |-> val]

NoKeyPair == [modulus |-> 0, public_exponent |-> 0]

\* Lines 69-75: the status check, response.json() and the two int(_, 16).
ParseKeyPair(response) ==
    LET key_pair == json_loads(response.text)
    IN  IF response.status_code # 200
        THEN StepRaise("Exception", <<"CAS Key Service was unavailable">>, NoKeyPair)
        ELSE IF ~key_pair.ok
        THEN StepRaise("JSONDecodeError", <<"Expecting value">>, NoKeyPair)
        ELSE IF key_pair.val.t # "obj"
        THEN StepRaise("TypeError", <<"indices must be integers">>, NoKeyPair)
        ELSE IF ~ObjHas(key_pair.val.v, FieldModulus)
        THEN StepRaise("KeyError", <<"modulus">>, NoKeyPair)
        ELSE IF ~IsHex(ObjGet(key_pair.val.v, FieldModulus).v)
        THEN StepRaise("ValueError", <<"invalid literal for int()">>, NoKeyPair)
        ELSE IF ~ObjHas(key_pair.val.v, FieldExponent)
        THEN StepRaise("KeyError", <<"exponent">>, NoKeyPair)
        ELSE IF ~IsHex(ObjGet(key_pair.val.v, FieldExponent).v)
        THEN StepRaise("ValueError", <<"invalid literal for int()">>, NoKeyPair)
        ELSE StepOk([modulus |-> HexToInt(ObjGet(key_pair.val.v, FieldModulus).v),
                     public_exponent |->
                        HexToInt(ObjGet(key_pair.val.v, FieldExponent).v)])

\* A slip in lines 77-78: the status of the login page is not checked.
ExtractExecutionAnyStatus(response) ==
    LET html == response.text
        marker == IndexFrom(html, ExecutionMarker, 0)
        start_index == marker + Len(ExecutionMarker)
        end_index == IndexFrom(html, <<"\"">>, start_index)
    IN  IF marker = NotFound \/ end_index = NotFound
        THEN [err |-> Exc("ValueError", <<"substring not found">>), val |-> <<>>]
        ELSE IF ~(0 < start_index /\ start_index < end_index)
        THEN [err |-> Exc("Exception", <<"CAS Login Page was unavailable">>),
              val |-> <<>>]
        ELSE [err |-> NoError, val |-> Slice(html, start_index, end_index)]

\* Lines 77-86: the status check and the extraction of the execution token.
ExtractExecution(response) ==
    LET html == response.text
        marker == IndexFrom(html, ExecutionMarker, 0)
        start_index == marker + Len(ExecutionMarker)
        end_index == IndexFrom(html, <<"\"">>, start_index)
    IN  IF response.status_code # 200
        THEN StepRaise("Exception", <<"CAS Login Page was unavailable">>, <<>>)
        ELSE IF marker = NotFound
        THEN StepRaise("ValueError", <<"substring not found">>, <<>>)
        ELSE IF end_index = NotFound
        THEN StepRaise("ValueError", <<"substring not found">>, <<>>)
        ELSE IF ~(0 < start_index /\ start_index < end_index)
        THEN StepRaise("Exception", <<"CAS Login Page was unavailable">>, <<>>)
        ELSE StepOk(Slice(html, start_index, end_index))

NoPayload ==
    [username |-> "", password |-> <<>>, execution |-> <<>>, eventId |-> "",
     authcode |-> "", mobileCode |-> ""]

\* A slip in lines 87-89: the modulus and the exponent are passed in each
\* other's place.
LoginPayloadSwapped(username, password, key_pair, execution) ==
    [username |-> username,
     password |-> rsa_encrypt(key_pair.modulus, key_pair.public_exponent, password),
     execution |-> execution,
     eventId |-> "submit", authcode |-> "", mobileCode |-> ""]

\* Lines 87-97: the form of the login POST.
LoginPayload(username, password, key_pair, execution) ==
    [username |-> username,
     password |-> rsa_encrypt(key_pair.public_exponent, key_pair.modulus, password),
     execution |-> execution,
     eventId |-> "submit", authcode |-> "", mobileCode |-> ""]

\* A slip in line 103: the Location header is not looked for.
PostOutcomeAny302(response) ==
    IF response.status_code = 302
    THEN [err |-> NoError, val |-> response.location]
    ELSE IF response.status_code = 200
    THEN [err |-> Exc("Exception", <<"Invalid username or password">>), val |-> <<>>]
    ELSE IF response.status_code = 403
    THEN [err |-> Exc("Exception", <<"Account disabled">>), val |-> <<>>]
    ELSE [err |-> Exc("Exception", <<"login failed">>), val |-> <<>>]

\* Lines 103-110: the status of the login POST.
PostOutcome(response) ==
    IF response.status_code = 302 /\ response.has_location
    THEN StepOk(response.location)
    ELSE IF response.status_code = 200
    THEN StepRaise("Exception", <<"Invalid username or password">>, <<>>)
    ELSE IF response.status_code = 403
    THEN StepRaise("Exception", <<"Account disabled">>, <<>>)
    ELSE StepRaise("Exception", <<"login failed">>, <<>>)

\* A slip in line 113: the "not" of the second test is missing.
ClassifyRedirectNoNot(redirect_url, username) ==
    IF StartsWith(redirect_url, modify_password_url_prefix)
    THEN [err |-> Exc("Exception", <<username, "Please change password first.">>),
          val |-> redirect_url]
    ELSE IF StartsWith(redirect_url, login_success_url_prefix)
    THEN [err |-> Exc("Exception", <<"ticket URL not found">>), val |-> redirect_url]
    ELSE [err |-> NoError, val |-> redirect_url]

\* A slip in lines 111-114: the targets are compared with ==, not startswith.
ClassifyRedirectEqual(redirect_url, username) ==
    IF redirect_url = modify_password_url_prefix
    THEN [err |-> Exc("Exception", <<username, "Please change password first.">>),
          val |-> redirect_url]
    ELSE IF redirect_url # login_success_url_prefix
    THEN [err |-> Exc("Exception", <<"ticket URL not found">>), val |-> redirect_url]
    ELSE [err |-> NoError, val |-> redirect_url]

\* A slip in lines 111-114: startswith is called the other way round, the
\* prefix on the target.
ClassifyRedirectReversed(redirect_url, username) ==
    IF StartsWith(modify_password_url_prefix, redirect_url)
    THEN [err |-> Exc("Exception", <<username, "Please change password first.">>),
          val |-> redirect_url]
    ELSE IF ~StartsWith(login_success_url_prefix, redirect_url)
    THEN [err |-> Exc("Exception", <<"ticket URL not found">>), val |-> redirect_url]
    ELSE [err |-> NoError, val |-> redirect_url]

\* Lines 111-114: the two prefix tests on the redirect target.
ClassifyRedirect(redirect_url, username) ==
    IF StartsWith(redirect_url, modify_password_url_prefix)
    THEN StepRaise("Exception", <<username, "Please change password first.">>,
                   redirect_url)
    ELSE IF ~StartsWith(redirect_url, login_success_url_prefix)
    THEN StepRaise("Exception", <<"ticket URL not found">>, redirect_url)
    ELSE StepOk(redirect_url)

\* A slip in lines 119-120: the raise is missing, the cookies are returned
\* whatever the status.
FollowOutcomeNoRaise(response, cookies) == [err |-> NoError, val |-> cookies]

\* A slip in line 118: every status below 400 counts as a success.
FollowOutcomeBelow400(response, cookies) ==
    IF response.status_code < 400 THEN [err |-> NoError, val |-> cookies]
    ELSE [err |-> Exc("Exception", <<"login failed">>), val |-> EmptyJar]

\* Lines 115-120: the status of the redirect target.
FollowOutcome(response, cookies) ==
    IF response.status_code = 200 THEN StepOk(cookies)
    ELSE StepRaise("Exception", <<"login failed">>, EmptyJar)

\* The locals of one call of sso_auth, with the requests it has issued and
\* the responses it has got.
InitAttempt(username, password) ==
    [pc |-> "start", username |-> username, password |-> password,
     key_pair |-> NoKeyPair, execution |-> <<>>, redirect_url |-> <<>>,
     payload |-> NoPayload, cookies |-> EmptyJar,
     requests |-> <<>>, responses |-> <<>>,
     error |-> NoError, result |-> EmptyJar]

\* A slip in line 67: the attempts go through one module-level session, so
\* an attempt's jar also takes the cookies the other attempt has got.
ExchangeSharedSession(st, request, response) ==
    LET others == {b \in DOMAIN sso : sso[b] # st}
        shared == IF others = {} THEN st.cookies
                  ELSE JarUpdate(st.cookies, sso[CHOOSE b \in others : TRUE].cookies)
    IN  [st EXCEPT !.requests = Append(@, request),
                   !.responses = Append(@, response),
                   !.cookies = JarUpdate(shared, response.cookies)]

\* The call issues `request` in its session and gets `response`.
Exchange(st, request, response) ==
    [st EXCEPT !.requests = Append(@, request),
               !.responses = Append(@, response),
               !.cookies = JarUpdate(@, response.cookies)]

\* A slip: the failing step is tried again instead of ending the call.
RaiseAndRetry(st, err) == [st EXCEPT !.error = err]

\* The call ends with an exception: nothing is returned.
Raise(st, err) == [st EXCEPT !.pc = "failed", !.error = err]

Failed(step) == step.err.type # "none"

\* Step 1, lines 68-75.
FetchKey(a) ==
    /\ sso[a].pc = "start"
    /\ \E response \in KeyResponses :
        LET st == Exchange(sso[a], Request("GET", key_url, TRUE), response)
            step == ParseKeyPair(response)
        IN  sso' = [sso EXCEPT ![a] =
                IF Failed(step) THEN Raise(st, step.err)
                ELSE [st EXCEPT !.pc = "key", !.key_pair = step.val]]
    /\ UNCHANGED <<tkVars, ems, libVars>>

\* Step 2, lines 76-86.
FetchLoginPage(a) ==
    /\ sso[a].pc = "key"
    /\ \E response \in LoginPageResponses :
        LET st == Exchange(sso[a], Request("GET", login_url, TRUE), response)
            step == ExtractExecution(response)
        IN  sso' = [sso EXCEPT ![a] =
                IF Failed(step) THEN Raise(st, step.err)
                ELSE [st EXCEPT !.pc = "page", !.execution = step.val]]
    /\ UNCHANGED <<tkVars, ems, libVars>>

\* Steps 3 and 4, lines 87-114: the password is encrypted, the form is
\* posted without following redirects, and the answer is classified.
SubmitCredentials(a) ==
    /\ sso[a].pc = "page"
    /\ \E response \in LoginPostResponses :
        LET payload == LoginPayload(sso[a].username, sso[a].password,
                                    sso[a].key_pair, sso[a].execution)
            st == Exchange([sso[a] EXCEPT !.payload = payload],
                           Request("POST", login_url, FALSE), response)
            post == PostOutcome(response)
            target == ClassifyRedirect(post.val, st.username)
        IN  sso' = [sso EXCEPT ![a] =
                IF Failed(post) THEN Raise(st, post.err)
                ELSE IF Failed(target)
                THEN Raise([st EXCEPT !.redirect_url = post.val], target.err)
                ELSE [st EXCEPT !.pc = "redirect", !.redirect_url = post.val]]
    /\ UNCHANGED <<tkVars, ems, libVars>>

\* Step 5, lines 115-120.
FollowRedirect(a) ==
    /\ sso[a].pc = "redirect"
    /\ \E response \in RedirectResponses(sso[a].redirect_url) :
        LET st == Exchange(sso[a], Request("GET", sso[a].redirect_url, TRUE),
                           response)
            step == FollowOutcome(response, st.cookies)
        IN  sso' = [sso EXCEPT ![a] =
                IF Failed(step) THEN Raise(st, step.err)
                ELSE [st EXCEPT !.pc = "done", !.result = step.val]]
    /\ UNCHANGED <<tkVars, ems, libVars>>

\* ------------------------------------------------------------------------
\* ems_auth.py: ems_auth_with_sso
\* ------------------------------------------------------------------------
homepage_url_prefix ==
    <<"h", "t", "t", "p", "s", ":", "/", "/", "j", "w", ".", "x", "t", "u", ".", "e", "d", "u", ".", "c", "n", ":", "4", "4", "3", "/", "j", "w", "g", "l", "x", "t", "/", "x", "t", "g", "l", "/", "i", "n", "d", "e", "x", "_", "i", "n", "i", "t", "M", "e", "n", "u", ".", "h", "t", "m", "l">>

auth_url ==
    <<"h", "t", "t", "p", "s", ":", "/", "/", "j", "w", ".", "x", "t", "u", ".", "e", "d", "u", ".", "c", "n", "/", "s", "s", "o", "/", "z", "f", "i", "o", "t", "l", "o", "g", "i", "n">>

\* Where the redirect chain of the bridging endpoint may end: the homepage
\* (exactly, with a query), the homepage without the port, the endpoint
\* itself, and the login page of the identity provider.
EmsFinalUrls ==
    {homepage_url_prefix,
     homepage_url_prefix \o <<"?", "j", "=", "1">>,
     SubSeq(homepage_url_prefix, 1, 21) \o SubSeq(homepage_url_prefix, 26, Len(homepage_url_prefix)),
     auth_url,
     login_url}

EmsResponses ==
    {Response(st, FALSE, <<>>, <<>>, url, cs) :
        st \in Statuses, url \in EmsFinalUrls, cs \in SetCookieHeaders}

\* The jars `n` calls of set can build from the cookies `pool`.
RECURSIVE JarsBuiltBy(_, _)
JarsBuiltBy(pool, n) ==
    IF n = 0 THEN {EmptyJar}
    ELSE LET smaller == JarsBuiltBy(pool, n - 1)
         IN  smaller \cup {JarSet(jar, c) : jar \in smaller, c \in pool}

NoEmsError == [type |-> "none", args |-> <<>>, url |-> <<>>]

\* One call of ems_auth_with_sso. cookie_jar is the caller's jar object;
\* line 26 makes it the session's jar, so the session stores into it.
\* given is the jar as it was when the call began.
InitExchange(cookie_jar) ==
    [pc |-> "start", cookie_jar |-> cookie_jar, given |-> cookie_jar,
     requests |-> <<>>, responses |-> <<>>, final_url |-> <<>>,
     error |-> NoEmsError, result |-> EmptyJar]

\* A slip in line 30: the final URL is compared with ==, not startswith.
ExchangeOutcomeEqual(final_url, cookies) ==
    IF final_url # homepage_url_prefix
    THEN [err |-> [type |-> "Exception",
                   args |-> <<"EMS Authentication Failed via SSO">>,
                   url |-> final_url],
          val |-> EmptyJar]
    ELSE [err |-> NoEmsError, val |-> cookies]

\* Lines 29-32: the test of the final URL; the value is session.cookies.
ExchangeOutcome(final_url, cookies) ==
    IF ~StartsWith(final_url, homepage_url_prefix)
    THEN [err |-> [type |-> "Exception",
                   args |-> <<"EMS Authentication Failed via SSO">>,
                   url |-> final_url],
          val |-> EmptyJar]
    ELSE [err |-> NoEmsError, val |-> cookies]

\* A slip after line 28: a final status other than 200 fails the call, as
\* the steps of sso_auth do.
EmsAuthWithSsoStatusChecked ==
    /\ ems.pc = "start"
    /\ \E response \in EmsResponses :
        LET st == [ems EXCEPT
                      !.requests = Append(@, Request("GET", auth_url, TRUE)),
                      !.responses = Append(@, response),
                      !.cookie_jar = JarUpdate(@, response.cookies),
                      !.final_url = response.url]
            step == ExchangeOutcome(st.final_url, st.cookie_jar)
        IN  ems' = IF response.status_code # 200
                   THEN [st EXCEPT !.pc = "failed",
                                   !.error = [type |-> "Exception",
                                              args |-> <<"EMS Authentication Failed via SSO">>,
                                              url |-> st.final_url]]
                   ELSE IF Failed(step)
                   THEN [st EXCEPT !.pc = "failed", !.error = step.err]
                   ELSE [st EXCEPT !.pc = "done", !.result = step.val]
    /\ UNCHANGED <<tkVars, sso, libVars>>

\* Lines 25-32.
EmsAuthWithSso ==
    /\ ems.pc = "start"
    /\ \E response \in EmsResponses :
        LET st == [ems EXCEPT
                      !.requests = Append(@, Request("GET", auth_url, TRUE)),
                      !.responses = Append(@, response),
                      !.cookie_jar = JarUpdate(@, response.cookies),
                      !.final_url = response.url]
            step == ExchangeOutcome(st.final_url, st.cookie_jar)
        IN  ems' = IF Failed(step)
                   THEN [st EXCEPT !.pc = "failed", !.error = step.err]
                   ELSE [st EXCEPT !.pc = "done", !.result = step.val]
    /\ UNCHANGED <<tkVars, sso, libVars>>

\* ------------------------------------------------------------------------
\* The token codec as a run: a jar is serialized, the token is decoded, and
\* the decoded jar is serialized again (the path of ems_auth.py's main).
\* ------------------------------------------------------------------------
CookieNames == {<<"s">>, <<"t">>}
CookieValues == {<<>>, <<"1">>, <<"\"", "\\">>}
CookieDomains == {<<"x">>, <<"y">>}
CookiePaths == {<<"/">>, <<"/", "a">>}

Cookies ==
    {Cookie(n, v, d, p) :
        n \in CookieNames, v \in CookieValues, d \in CookieDomains, p \in CookiePaths}

NotDecoded == [err |-> "pending", jar |-> EmptyJar]

Serialize ==
    /\ tkPc = "jar"
    /\ tkToken' = serialize_token(tkJar, tkFlag)
    /\ tkPc' = "token"
    /\ UNCHANGED <<tkJar, tkFlag, tkDecFlag, tkOut, tkToken2, sso, ems, libVars>>

\* The caller says whether the token is compressed.
Deserialize ==
    /\ tkPc = "token"
    /\ \E compressed \in BOOLEAN :
        /\ tkDecFlag' = compressed
        /\ tkOut' = deserialize_token(tkToken, compressed)
    /\ tkPc' = "decoded"
    /\ UNCHANGED <<tkJar, tkFlag, tkToken, tkToken2, sso, ems, libVars>>

Reserialize ==
    /\ tkPc = "decoded"
    /\ tkOut.err = "none"
    /\ tkToken2' = serialize_token(tkOut.jar, tkDecFlag)
    /\ tkPc' = "reencoded"
    /\ UNCHANGED <<tkJar, tkFlag, tkToken, tkDecFlag, tkOut, sso, ems, libVars>>

\* ------------------------------------------------------------------------
\* The token as a command-line argument: the main of every script reads
\* --token and --compressed and decodes the token first. The argument is
\* any string; the model draws it from JSON documents around the format
\* of serialize_token and from their encodings.
\* ------------------------------------------------------------------------
ArgCookie == Cookie(<<"s">>, <<"1">>, <<"x">>, <<"/">>)
ArgCookieNewValue == Cookie(<<"s">>, <<"2">>, <<"x">>, <<"/">>)
ArgCookieOtherHost == Cookie(<<"s">>, <<"1">>, <<"y">>, <<"/">>)

\* The record of ArgCookie with the fields `fields` (positions of AllFields).
RecordWith(fields) ==
    LET all == CookieRecord(ArgCookie).v
        kept == SelectSeq(<<1, 2, 3, 4>>, LAMBDA i : i \in fields)
    IN  JObj([k \in 1..Len(kept) |-> all[kept[k]]])

\* Arrays of one record that has any subset of the four fields.
ArgumentRecordArrays == {JArr(<<RecordWith(fields)>>) : fields \in SUBSET (1..4)}

\* Arrays of complete records that repeat a (name, domain, path), that hold
\* one name in two domains, and both.
ArgumentCookieArrays ==
    {JArr(<<CookieRecord(ArgCookie), CookieRecord(ArgCookieNewValue)>>),
     JArr(<<CookieRecord(ArgCookie), CookieRecord(ArgCookieOtherHost)>>),
     JArr(<<CookieRecord(ArgCookie), CookieRecord(ArgCookieOtherHost),
            CookieRecord(ArgCookieNewValue)>>),
     JArr(<<RecordWith({1, 2, 3, 4}), RecordWith({1, 2, 3})>>)}

\* Documents that are no array of objects: the empty array aside, an empty
\* and a non-empty object, a complete record outside an array, strings, and
\* arrays of strings and of arrays.
ArgumentOtherValues ==
    {JArr(<<>>),
     JObj(<<>>),
     JObj(<< <<FieldKey, JStr(<<"s">>)>> >>),
     CookieRecord(ArgCookie),
     JStr(<<>>),
     JStr(<<"a", "b">>),
     JArr(<<JStr(<<"a">>)>>),
     JArr(<<JArr(<<>>)>>),
     JArr(<<CookieRecord(ArgCookie), JStr(<<>>)>>)}

ArgumentValues ==
    ArgumentRecordArrays \cup ArgumentCookieArrays \cup ArgumentOtherValues

\* Strings that are no JSON document.
ArgumentNonJson ==
    {<<>>, <<"a", "b", "c">>, <<"[">>, <<"[", "]", "]">>, <<"{", "\"", "k", "\"", "}">>}

ArgumentTexts == {json_dumps(val) : val \in ArgumentValues} \cup ArgumentNonJson

\* Each text as it is, compressed and encoded, and encoded without having
\* been compressed.
ArgumentTokens ==
    ArgumentTexts
    \cup {urlsafe_b64encode(bz2_compress(Utf8Encode(text))) : text \in ArgumentTexts}
    \cup {urlsafe_b64encode(Utf8Encode(text)) : text \in ArgumentTexts}

\* student_info.py main, lines 102-105 (and the same lines of every other
\* script): the token and the flag of the command line are decoded.
DeserializeArgument ==
    /\ tkPc = "argv"
    /\ tkOut' = deserialize_token(tkToken, tkFlag)
    /\ tkDecFlag' = tkFlag
    /\ tkPc' = "parsed"
    /\ UNCHANGED <<tkJar, tkFlag, tkToken, tkToken2, sso, ems, libVars>>

\* ------------------------------------------------------------------------
\* rsa_encrypt called on its own, twice with the same arguments.
\* ------------------------------------------------------------------------
\* Exponents, moduli and plaintexts of the calls: the toy key (17, 3233) and
\* (3, 33) of the key bodies, a modulus of one and of a power of two, and
\* plaintexts below and above the moduli (the empty one is 0).
RsaExponents == {3, 17, 257}
RsaModuli == {1, 33, 256, 3233}
RsaPlaintexts ==
    {<<>>, <<"!">>, <<"0">>, <<"A">>, <<"A", "B">>, <<"z", "z">>, <<"~", "~", "~">>}

NoCiphertext == <<"<", "n", "o", "n", "e", ">">>

InitRsa(encrypt_exponent, modulus, plaintext) ==
    [pc |-> "start", encrypt_exponent |-> encrypt_exponent, modulus |-> modulus,
     plaintext |-> plaintext, first |-> NoCiphertext, second |-> NoCiphertext]

\* Lines 26-29, a first call.
RsaEncrypt ==
    /\ rsa.pc = "start"
    /\ rsa' = [rsa EXCEPT
                  !.pc = "once",
                  !.first = rsa_encrypt(rsa.encrypt_exponent, rsa.modulus,
                                        rsa.plaintext)]
    /\ UNCHANGED <<tkVars, sso, ems, info, examCall, queryVars>>

\* Lines 26-29, a second call after the first.
RsaEncryptAgain ==
    /\ rsa.pc = "once"
    /\ rsa' = [rsa EXCEPT
                  !.pc = "twice",
                  !.second = rsa_encrypt(rsa.encrypt_exponent, rsa.modulus,
                                         rsa.plaintext)]
    /\ UNCHANGED <<tkVars, sso, ems, info, examCall, queryVars>>

\* ------------------------------------------------------------------------
\* student_info.py: parse_student_info and ems_get_info
\* ------------------------------------------------------------------------
info_url ==
    <<"h", "t", "t", "p", "s", ":", "/", "/", "j", "w", ".", "x", "t", "u", ".", "e", "d", "u", ".", "c", "n", "/", "j", "w", "g", "l", "x", "t", "/", "x", "s", "x", "x", "x", "g", "g", "l", "/", "x", "s", "g", "r", "x", "x", "w", "h", "_", "c", "x", "X", "s", "g", "r", "x", "x", ".", "h", "t", "m", "l", "?", "g", "n", "m", "k", "d", "m", "=", "N", "1", "0", "0", "8", "0", "1", "&", "l", "a", "y", "o", "u", "t", "=", "d", "e", "f", "a", "u", "l", "t">>

\* A page as html.parser sees it: its elements with an id, in document
\* order, each with the elements inside it (cells) and their text. The
\* tokenising of the markup is the library's and is not modelled.
Element(id, cells) == [id |-> id, cells |-> cells]
Cell(id, text) == [id |-> id, text |-> text]

\* soup.find(id=...): the first element of the page with the id, or None.
NoElement == [id |-> "None", cells |-> <<>>]

FindPanel(page, id) ==
    IF \E i \in 1..Len(page) : page[i].id = id
    THEN page[CHOOSE i \in 1..Len(page) :
                page[i].id = id /\ \A j \in 1..(i - 1) : page[j].id # id]
    ELSE NoElement

\* str.strip() on blanks.
RECURSIVE Strip(_)
Strip(s) ==
    IF s = <<>> THEN s
    ELSE IF Head(s) = " " THEN Strip(Tail(s))
    ELSE IF s[Len(s)] = " " THEN Strip(SubSeq(s, 1, Len(s) - 1))
    ELSE s

\* _safe_get_text, lines 39-44.
SafeGetText(panel, element_id) ==
    IF panel = NoElement THEN <<>>
    ELSE IF \E i \in 1..Len(panel.cells) : panel.cells[i].id = element_id
    THEN Strip(panel.cells[CHOOSE i \in 1..Len(panel.cells) :
                    /\ panel.cells[i].id = element_id
                    /\ \A j \in 1..(i - 1) : panel.cells[j].id # element_id].text)
    ELSE <<>>

\* The keys of the result and the ids they are read from.
BasicFields ==
    << <<"student_id", "col_xh">>, <<"name", "col_xm">>, <<"gender", "col_xbm">>,
       <<"birthday", "col_csrq">>, <<"entrance_day", "col_rxrq">> >>

StatusFields ==
    << <<"major", "col_zyh_id">>, <<"class", "col_bh_id">>,
       <<"college", "col_jg_id">> >>

\* A dict is the sequence of its (key, value) pairs in insertion order.
ReadFields(panel, fields) ==
    [i \in 1..Len(fields) |-> <<fields[i][1], SafeGetText(panel, fields[i][2])>>]

\* Lines 25-60.
parse_student_info(html) ==
    LET basic_info_panel == FindPanel(html, "content_xsxxgl_xsjbxx")
        student_info_panel == FindPanel(html, "content_xsxxgl_xsxjxx")
    IN  IF basic_info_panel = NoElement THEN <<>>
        ELSE IF student_info_panel = NoElement
        THEN ReadFields(basic_info_panel, BasicFields)
        ELSE ReadFields(basic_info_panel, BasicFields)
             \o ReadFields(student_info_panel, StatusFields)

\* Response.raise_for_status: HTTPError for the statuses 400..599.
RaisesForStatus(status_code) == 400 <= status_code /\ status_code < 600

\* The HTTPError of raise_for_status, by the class of the status.
HttpError(status_code) ==
    Exc("HTTPError",
        <<IF status_code < 500 THEN "Client Error" ELSE "Server Error">>)

\* Pages of the portal: the student's page, the page with the first panel
\* only and a cell missing, and the login page a stale session is sent to.
InfoPageFull ==
    <<Element("content_xsxxgl_xsjbxx",
              <<Cell("col_xh", <<" ", "2", "1", " ">>), Cell("col_xm", <<"L">>),
                Cell("col_xbm", <<"M">>), Cell("col_csrq", <<"0", "1">>),
                Cell("col_rxrq", <<"0", "9">>)>>),
      Element("content_xsxxgl_xsxjxx",
              <<Cell("col_zyh_id", <<"C", "S">>), Cell("col_bh_id", <<"1">>),
                Cell("col_jg_id", <<"X">>)>>)>>

InfoPageBasic ==
    <<Element("content_xsxxgl_xsjbxx",
              <<Cell("col_xh", <<"2", "1">>), Cell("col_xbm", <<" ">>)>>)>>

InfoPageLogin == <<Element("fm1", <<Cell("username", <<>>)>>)>>

InfoPages == {InfoPageFull, InfoPageBasic, InfoPageLogin, <<>>}

\* The statuses of the model and a second 2xx status.
InfoStatuses == Statuses \cup {204}

InfoResponses ==
    {Response(st, FALSE, <<>>, page, info_url, cs) :
        st \in InfoStatuses, page \in InfoPages, cs \in SetCookieHeaders}

\* One call of ems_get_info. cookie_jar is the caller's jar object, which
\* line 76 makes the session's jar; given is the jar as the call got it.
InitInfo(cookie_jar) ==
    [pc |-> "start", cookie_jar |-> cookie_jar, given |-> cookie_jar,
     requests |-> <<>>, responses |-> <<>>, error |-> NoError, result |-> <<>>]

\* Lines 75-80.
EmsGetInfo ==
    /\ info.pc = "start"
    /\ \E response \in InfoResponses :
        LET st == [info EXCEPT
                      !.requests = Append(@, Request("GET", info_url, FALSE)),
                      !.responses = Append(@, response),
                      !.cookie_jar = JarUpdate(@, response.cookies)]
        IN  info' = IF RaisesForStatus(response.status_code)
                    THEN [st EXCEPT !.pc = "failed",
                                    !.error = HttpError(response.status_code)]
                    ELSE [st EXCEPT !.pc = "done",
                                    !.result = parse_student_info(response.text)]
    /\ UNCHANGED <<tkVars, sso, ems, rsa, examCall, queryVars>>

\* ------------------------------------------------------------------------
\* exam_schedule.py: get_term_year, get_term_id, parse_exams_list and
\* ems_get_exam_schedule
\* ------------------------------------------------------------------------
exams_url ==
    <<"h", "t", "t", "p", "s", ":", "/", "/", "j", "w", ".", "x", "t", "u", ".", "e", "d", "u", ".", "c", "n", "/", "j", "w", "g", "l", "x", "t", "/", "k", "w", "g", "l", "/", "k", "s", "c", "x", "_", "c", "x", "X", "s", "k", "s", "x", "x", "I", "n", "d", "e", "x", ".", "h", "t", "m", "l", "?", "d", "o", "T", "y", "p", "e", "=", "q", "u", "e", "r", "y", "&", "g", "n", "m", "k", "d", "m", "=", "N", "3", "5", "8", "1", "0", "5">>

\* A date is [year, month]; the day plays no part.
Date(year, month) == [year |-> year, month |-> month]

\* Lines 50-55.
get_term_year(d) == IF d.month < 8 THEN d.year - 1 ELSE d.year

\* Lines 67-68.
get_term_id(d) == IF 2 <= d.month /\ d.month <= 7 THEN 2 ELSE 1

\* An optional int argument: None, or an int.
None == [some |-> FALSE, v |-> 0]
Some(v) == [some |-> TRUE, v |-> v]

\* str() of an int >= 0, as an f-string renders it.
DecDigits == <<"0", "1", "2", "3", "4", "5", "6", "7", "8", "9">>

RECURSIVE IntToDec(_)
IntToDec(n) ==
    IF n < 10 THEN <<DecDigits[n + 1]>>
    ELSE Append(IntToDec(n \div 10), DecDigits[(n % 10) + 1])

\* Lines 85-91: the year and the term the request is built from. The test
\* of lines 89-91 repeats the one of lines 85-87 and finds both set.
QueryTerm(year, term, today) ==
    IF ~year.some \/ ~term.some
    THEN [year |-> get_term_year(today), term |-> get_term_id(today)]
    ELSE [year |-> year.v, term |-> term.v]

\* Lines 92-107: the form body.
ExamPayload(year, term, today, now_ms) ==
    LET q == QueryTerm(year, term, today)
    IN  <<"x", "n", "m", "=">> \o IntToDec(q.year)
        \o <<"&", "x", "q", "m", "=">> \o IntToDec(q.term)
        \o <<"&", "k", "s", "m", "c", "d", "m", "b", "_", "i", "d", "=", "&", "k", "c", "h", "=", "&", "k", "c", "=", "&", "k", "s", "r", "q", "=", "&", "k", "k", "b", "m", "_", "i", "d", "=", "&", "_", "s", "e", "a", "r", "c", "h", "=", "f", "a", "l", "s", "e", "&", "n", "d", "=">>
        \o IntToDec(now_ms)
        \o <<"&", "q", "u", "e", "r", "y", "M", "o", "d", "e", "l", ".", "s", "h", "o", "w", "C", "o", "u", "n", "t", "=", "9", "9", "9", "9", "&", "q", "u", "e", "r", "y", "M", "o", "d", "e", "l", ".", "c", "u", "r", "r", "e", "n", "t", "P", "a", "g", "e", "=", "1", "&", "q", "u", "e", "r", "y", "M", "o", "d", "e", "l", ".", "s", "o", "r", "t", "N", "a", "m", "e", "=", "+", "&", "q", "u", "e", "r", "y", "M", "o", "d", "e", "l", ".", "s", "o", "r", "t", "O", "r", "d", "e", "r", "=", "a", "s", "c", "&", "t", "i", "m", "e", "=", "1">>

\* str.split(sep) on a one-character separator.
RECURSIVE SplitOn(_, _)
SplitOn(s, sep) ==
    LET i == IndexFrom(s, <<sep>>, 0)
    IN  IF i = NotFound THEN <<s>>
        ELSE <<SubSeq(s, 1, i)>> \o SplitOn(SubSeq(s, i + 2, Len(s)), sep)

Contains(s, c) == \E i \in 1..Len(s) : s[i] = c

FieldName == <<"k", "c", "m", "c">>
FieldTime == <<"k", "s", "s", "j">>
FieldPlace == <<"c", "d", "m", "c">>
FieldType == <<"k", "h", "f", "s">>

\* The default of the type, a two-character Chinese word ("exam"), as two
\* characters outside the ASCII alphabet.
DefaultType == <<"<U+8003>", "<U+8BD5>">>

\* exam.get(field, default).strip(): AttributeError (ok = FALSE) when exam
\* is no dict or the value is no str.
GetStripped(exam, field, default) ==
    IF exam.t # "obj" THEN [ok |-> FALSE, v |-> <<>>]
    ELSE IF ~ObjHas(exam.v, field) THEN [ok |-> TRUE, v |-> Strip(default)]
    ELSE IF ObjGet(exam.v, field).t # "str" THEN [ok |-> FALSE, v |-> <<>>]
    ELSE [ok |-> TRUE, v |-> Strip(ObjGet(exam.v, field).v)]

\* Lines 19-28: the start and the end of "date(start-end)"; ok = FALSE is
\* the ValueError of unpacking a range that has not exactly one "-".
ExamTimes(exam_time) ==
    IF Contains(exam_time, "(") /\ Contains(exam_time, ")")
    THEN LET start_str == SplitOn(exam_time, "(")[1]
             time_range == SplitOn(SplitOn(exam_time, "(")[2], ")")[1]
             parts == SplitOn(time_range, "-")
         IN  IF Len(parts) # 2 THEN [ok |-> FALSE, start |-> <<>>, end |-> <<>>]
             ELSE [ok |-> TRUE,
                   start |-> start_str \o <<" ">> \o parts[1],
                   end |-> start_str \o <<" ">> \o parts[2]]
    ELSE [ok |-> TRUE, start |-> exam_time, end |-> exam_time]

\* Lines 16-39: one dict per exam, or the exception that ends the loop.
RECURSIVE ParseExams(_, _)
ParseExams(exams_list, exams) ==
    IF exams_list = <<>> THEN StepOk(exams)
    ELSE LET exam == Head(exams_list)
             exam_name == GetStripped(exam, FieldName, <<>>)
             exam_time == GetStripped(exam, FieldTime, <<>>)
             times == ExamTimes(exam_time.v)
             location == GetStripped(exam, FieldPlace, <<>>)
             exam_type == GetStripped(exam, FieldType, DefaultType)
         IN  IF ~exam_name.ok \/ ~exam_time.ok
             THEN StepRaise("AttributeError", <<"strip">>, <<>>)
             ELSE IF ~times.ok
             THEN StepRaise("ValueError", <<"unpack">>, <<>>)
             ELSE IF ~location.ok \/ ~exam_type.ok
             THEN StepRaise("AttributeError", <<"strip">>, <<>>)
             ELSE ParseExams(Tail(exams_list),
                     Append(exams,
                            << <<"name", exam_name.v>>,
                               <<"start_time", times.start>>,
                               <<"end_time", times.end>>,
                               <<"location", location.v>>,
                               <<"type", exam_type.v>> >>))

parse_exams_list(exams_list) == ParseExams(exams_list, <<>>)

FieldItems == <<"i", "t", "e", "m", "s">>

\* Lines 114-116: response.json(), resp_json.get("items", []) and the
\* parsing of the list.
ExamsOf(text) ==
    LET resp_json == json_loads(text)
    IN  IF ~resp_json.ok THEN StepRaise("JSONDecodeError", <<"json">>, <<>>)
        ELSE IF resp_json.val.t # "obj"
        THEN StepRaise("AttributeError", <<"get">>, <<>>)
        ELSE IF ~ObjHas(resp_json.val.v, FieldItems) THEN parse_exams_list(<<>>)
        ELSE parse_exams_list(IterItems(ObjGet(resp_json.val.v, FieldItems)))

\* The exams of the bodies: a time with a range, a time without one, a
\* record without fields, and two times that cannot be split.
ExamRecord(name, time, place) ==
    JObj(<< <<FieldName, JStr(name)>>, <<FieldTime, JStr(time)>>,
            <<FieldPlace, JStr(place)>> >>)

ExamItems ==
    {<<>>,
     <<ExamRecord(<<" ", "M">>, <<"0", "1", "(", "8", "-", "9", ")">>, <<"A">>)>>,
     <<ExamRecord(<<"M">>, <<"0", "1">>, <<>>), JObj(<<>>)>>,
     <<ExamRecord(<<"M">>, <<"0", "(", "1", "-", "2", "-", "3", ")">>, <<>>)>>,
     <<ExamRecord(<<"M">>, <<")", "(">>, <<>>)>>,
     <<JStr(<<"M">>)>>}

\* Bodies of the exam query: an object with items, an object without, a
\* list, and the login page a stale session is redirected to.
ExamBodies ==
    {json_dumps(JObj(<< <<FieldItems, JArr(items)>> >>)) : items \in ExamItems}
    \cup {json_dumps(JObj(<<>>)), json_dumps(JArr(<<>>)), PageWithoutMarker}

ExamResponses ==
    {Response(st, FALSE, <<>>, body, exams_url, cs) :
        st \in Statuses, body \in ExamBodies, cs \in SetCookieHeaders}

\* The arguments of the calls, the dates they are made on and the clock
\* (time.time() * 1000, in milliseconds).
ExamYears == {None, Some(2020), Some(2024)}
ExamTerms == {None, Some(1), Some(2), Some(12)}
ExamDates == {Date(2025, 1), Date(2025, 2), Date(2025, 7), Date(2025, 8)}
ExamClocks == {0, 1700000000}

\* One call of ems_get_exam_schedule on the date `today`.
InitExam(cookie_jar, year, term, today, now_ms) ==
    [pc |-> "start", cookie_jar |-> cookie_jar, given |-> cookie_jar,
     year |-> year, term |-> term, today |-> today, now_ms |-> now_ms,
     payload |-> <<>>, requests |-> <<>>, responses |-> <<>>,
     error |-> NoError, result |-> <<>>]

\* Lines 83-116.
EmsGetExamSchedule ==
    /\ examCall.pc = "start"
    /\ \E response \in ExamResponses :
        LET payload == ExamPayload(examCall.year, examCall.term, examCall.today, examCall.now_ms)
            st == [examCall EXCEPT
                      !.payload = payload,
                      !.requests = Append(@, Request("POST", exams_url, TRUE)),
                      !.responses = Append(@, response),
                      !.cookie_jar = JarUpdate(@, response.cookies)]
            step == ExamsOf(response.text)
        IN  examCall' = IF RaisesForStatus(response.status_code)
                    THEN [st EXCEPT !.pc = "failed",
                                    !.error = HttpError(response.status_code)]
                    ELSE IF Failed(step)
                    THEN [st EXCEPT !.pc = "failed", !.error = step.err]
                    ELSE [st EXCEPT !.pc = "done", !.result = step.val]
    /\ UNCHANGED <<tkVars, sso, ems, rsa, info, queryVars>>

\* ------------------------------------------------------------------------
\* classroom_availability.py: ClassroomQueryData and
\* ems_get_classsroom_avaliability
\* ------------------------------------------------------------------------
classroom_status_url ==
    <<"h", "t", "t", "p", "s", ":", "/", "/", "j", "w", ".", "x", "t", "u", ".", "e", "d", "u", ".", "c", "n", "/", "j", "w", "g", "l", "x", "t", "/", "c", "d", "j", "y", "/", "c", "d", "j", "y", "_", "c", "x", "K", "x", "c", "d", "l", "b", ".", "h", "t", "m", "l", "?", "d", "o", "T", "y", "p", "e", "=", "q", "u", "e", "r", "y", "&", "g", "n", "m", "k", "d", "m", "=", "N", "2", "1", "5", "5">>

\* Lines 22-54: the fields of the query.
ClassroomQueryData(year, term, weeks, day_of_week, sections, time) ==
    [year |-> year, term |-> term, weeks |-> weeks, day_of_week |-> day_of_week,
     sections |-> sections, time |-> time]

\* A slip in line 69: the bit is added, not or-ed.
BitOrAdd(a, b) == a + b

\* a | b on ints >= 0, bit by bit.
RECURSIVE BitOr(_, _)
BitOr(a, b) ==
    IF a = 0 THEN b
    ELSE IF b = 0 THEN a
    ELSE (IF a % 2 = 1 \/ b % 2 = 1 THEN 1 ELSE 0) + 2 * BitOr(a \div 2, b \div 2)

\* n << k for k >= 0.
RECURSIVE ShiftLeft(_, _)
ShiftLeft(n, k) == IF k = 0 THEN n ELSE ShiftLeft(2 * n, k - 1)

\* Lines 67-70: the loop of _bits_of_list; a shift by a negative count
\* (a value below 1) raises ValueError.
RECURSIVE BitsOfList(_, _)
BitsOfList(ls, result) ==
    IF ls = <<>> THEN StepOk(result)
    ELSE LET i == Head(ls)
         IN  IF i - 1 < 0
             THEN StepRaise("ValueError", <<"negative shift count">>, 0)
             ELSE BitsOfList(Tail(ls), BitOr(result, ShiftLeft(1, i - 1)))

bits_of_list(ls) == BitsOfList(ls, 0)

\* Lines 82-98: the query string, with the clock in milliseconds.
ClassroomRepr(query_data, now_ms) ==
    LET zcd == bits_of_list(query_data.weeks)
        jcd == bits_of_list(query_data.sections)
    IN  IF Failed(zcd) THEN StepRaise(zcd.err.type, zcd.err.args, <<>>)
        ELSE IF Failed(jcd) THEN StepRaise(jcd.err.type, jcd.err.args, <<>>)
        ELSE StepOk(
            <<"x", "q", "h", "_", "i", "d", "=", "0", "2", "&", "x", "n", "m", "=">> \o IntToDec(query_data.year)
            \o <<"&", "x", "q", "m", "=">> \o IntToDec(IF query_data.term = 1 THEN 3 ELSE 12)
            \o <<"&", "c", "d", "l", "b", "_", "i", "d", "=", "0", "1", "&", "j", "y", "f", "s", "=", "0", "&", "z", "c", "d", "=">> \o IntToDec(zcd.val)
            \o <<"&", "x", "q", "j", "=">> \o IntToDec(query_data.day_of_week)
            \o <<"&", "j", "c", "d", "=">> \o IntToDec(jcd.val)
            \o <<"&", "_", "s", "e", "a", "r", "c", "h", "=", "f", "a", "l", "s", "e", "&", "n", "d", "=">> \o IntToDec(now_ms)
            \o <<"&", "q", "u", "e", "r", "y", "M", "o", "d", "e", "l", ".", "s", "h", "o", "w", "C", "o", "u", "n", "t", "=", "9", "9", "9", "9", "9", "&", "q", "u", "e", "r", "y", "M", "o", "d", "e", "l", ".", "c", "u", "r", "r", "e", "n", "t", "P", "a", "g", "e", "=", "1", "&", "q", "u", "e", "r", "y", "M", "o", "d", "e", "l", ".", "s", "o", "r", "t", "N", "a", "m", "e", "=", "c", "d", "b", "h", "+", "&", "q", "u", "e", "r", "y", "M", "o", "d", "e", "l", ".", "s", "o", "r", "t", "O", "r", "d", "e", "r", "=", "a", "s", "c", "&", "t", "i", "m", "e", "=">> \o IntToDec(query_data.time))

FieldRoom == <<"c", "d", "m", "c">>

\* Line 136: item["cdmc"] of every item.
RECURSIVE RoomNames(_, _)
RoomNames(items, names) ==
    IF items = <<>> THEN StepOk(names)
    ELSE LET item == Head(items)
         IN  IF item.t # "obj"
             THEN StepRaise("TypeError", <<"indices must be integers">>, <<>>)
             ELSE IF ~ObjHas(item.v, FieldRoom)
             THEN StepRaise("KeyError", <<"cdmc">>, <<>>)
             ELSE RoomNames(Tail(items), Append(names, ObjGet(item.v, FieldRoom)))

\* Lines 135-136: response.json() and data["items"].
RoomsOf(text) ==
    LET data == json_loads(text)
    IN  IF ~data.ok THEN StepRaise("JSONDecodeError", <<"json">>, <<>>)
        ELSE IF data.val.t # "obj"
        THEN StepRaise("TypeError", <<"indices must be integers">>, <<>>)
        ELSE IF ~ObjHas(data.val.v, FieldItems)
        THEN StepRaise("KeyError", <<"items">>, <<>>)
        ELSE RoomNames(IterItems(ObjGet(data.val.v, FieldItems)), <<>>)

\* Lines 130-133: any status but 200 raises, the status in the message.
ClassroomStatusError(status_code) ==
    Exc("Exception",
        <<"Failed to retrieve classroom availability information, status code",
          IntToDec(status_code)>>)

\* Bodies of the classroom query: a list of two rooms, an empty list, an
\* object without items, and the login page a stale session is sent to.
ClassroomBodies ==
    {json_dumps(JObj(<< <<FieldItems,
                          JArr(<<JObj(<< <<FieldRoom, JStr(<<"A", "1">>)>> >>),
                                 JObj(<< <<FieldRoom, JStr(<<"B">>)>> >>)>>)>> >>)),
     json_dumps(JObj(<< <<FieldItems, JArr(<<JObj(<<>>)>>)>> >>)),
     json_dumps(JObj(<< <<FieldItems, JArr(<<>>)>> >>)),
     json_dumps(JObj(<<>>)),
     PageWithoutMarker}

ClassroomResponses ==
    {Response(st, FALSE, <<>>, body, classroom_status_url, <<>>) :
        st \in Statuses, body \in ClassroomBodies}
    \cup {Response(302, TRUE, login_url, <<>>, classroom_status_url,
                    <<Cookie(<<"s">>, <<"1">>, <<"x">>, <<"/">>)>>)}

\* The lists of at most n values.
RECURSIVE ListsUpTo(_, _)
ListsUpTo(values, n) ==
    IF n = 0 THEN {<<>>}
    ELSE LET shorter == ListsUpTo(values, n - 1)
         IN  shorter \cup {Append(ls, v) : ls \in shorter, v \in values}

\* The weeks and the sections of the queries: week 20 is the last of a
\* term, section 11 the last of a day, and 0 is no week.
WeekValues == {0, 1, 2, 20}
SectionValues == {1, 11}
RoomTerms == {1, 2, 3}

ClassroomQueries ==
    {ClassroomQueryData(2024, term, weeks, 5, sections, 0) :
        term \in RoomTerms,
        weeks \in ListsUpTo(WeekValues, MaxListLen),
        sections \in ListsUpTo(SectionValues, MaxListLen)}

\* One call of ems_get_classsroom_avaliability at the time now_ms.
InitRoom(cookie_jar, query_data, now_ms) ==
    [pc |-> "start", cookie_jar |-> cookie_jar, given |-> cookie_jar,
     query_data |-> query_data, now_ms |-> now_ms,
     payload |-> <<>>, requests |-> <<>>, responses |-> <<>>,
     error |-> NoError, result |-> <<>>]

\* Lines 116-136: the payload is built before the session is opened.
EmsGetClasssroomAvaliability ==
    /\ roomCall.pc = "start"
    /\ LET payload == ClassroomRepr(roomCall.query_data, roomCall.now_ms)
       IN  IF Failed(payload)
           THEN roomCall' = [roomCall EXCEPT !.pc = "failed", !.error = payload.err]
           ELSE \E response \in ClassroomResponses :
                LET st == [roomCall EXCEPT
                              !.payload = payload.val,
                              !.requests = Append(@, Request("POST", classroom_status_url, FALSE)),
                              !.responses = Append(@, response),
                              !.cookie_jar = JarUpdate(@, response.cookies)]
                    step == RoomsOf(response.text)
                IN  roomCall' =
                        IF response.status_code # 200
                        THEN [st EXCEPT !.pc = "failed",
                                        !.error = ClassroomStatusError(response.status_code)]
                        ELSE IF Failed(step)
                        THEN [st EXCEPT !.pc = "failed", !.error = step.err]
                        ELSE [st EXCEPT !.pc = "done", !.result = step.val]
    /\ UNCHANGED <<tkVars, sso, ems, rsa, info, examCall, courseCall, gpaCall, pdfCall>>

\* ------------------------------------------------------------------------
\* course_schedule.py: get_term_year, get_term_id, normalize_term and
\* ems_get_course_schedule
\* ------------------------------------------------------------------------
courses_url ==
    <<"h", "t", "t", "p", "s", ":", "/", "/", "j", "w", ".", "x", "t", "u", ".", "e", "d", "u", ".", "c", "n", "/", "j", "w", "g", "l", "x", "t", "/", "k", "b", "c", "x", "/", "x", "s", "k", "b", "c", "x", "_", "c", "x", "X", "s", "g", "r", "k", "b", ".", "h", "t", "m", "l", "?", "g", "n", "m", "k", "d", "m", "=", "N", "2", "1", "5", "1">>

\* Line 135.
course_get_term_year(d) == IF d.month < 8 THEN d.year - 1 ELSE d.year

\* Line 147: the term code of the date.
course_get_term_id(d) == IF 2 <= d.month /\ d.month <= 7 THEN 12 ELSE 3

\* Lines 159-163.
normalize_term(term) == IF term = 1 THEN 3 ELSE IF term = 2 THEN 12 ELSE term

\* Lines 186-196: the form of the request; each argument is inferred from
\* the date when it is None itself.
CoursePayload(year, term, today) ==
    LET year_sent == IF ~year.some THEN course_get_term_year(today) ELSE year.v
        term_sent == IF ~term.some THEN course_get_term_id(today) ELSE term.v
        term_for_payload == normalize_term(term_sent)
    IN  <<"x", "n", "m", "=">> \o IntToDec(year_sent)
        \o <<"&", "x", "q", "m", "=">> \o IntToDec(term_for_payload)
        \o <<"&", "k", "z", "l", "x", "=", "c", "k">>

FieldCourses == <<"k", "b", "L", "i", "s", "t">>
FieldTeacher == <<"x", "m">>

\* Lines 101-123 on courses that carry no zcd, no jc and no xqj (the only
\* ones the servers of the model send): parse_weeks("") and
\* parse_sections("") are the empty list (lines 24-25, 69-70), and the day
\* is int("1").
RECURSIVE ParseCourses(_, _)
ParseCourses(courses_list, courses) ==
    IF courses_list = <<>> THEN StepOk(courses)
    ELSE LET course == Head(courses_list)
             name == GetStripped(course, FieldName, <<>>)
             teacher == GetStripped(course, FieldTeacher, <<>>)
             location == GetStripped(course, FieldPlace, <<>>)
         IN  IF ~name.ok \/ ~teacher.ok \/ ~location.ok
             THEN StepRaise("AttributeError", <<"strip">>, <<>>)
             ELSE ParseCourses(Tail(courses_list),
                     Append(courses,
                            << <<"name", name.v>>,
                               <<"teacher", teacher.v>>,
                               <<"location", location.v>>,
                               <<"weeks", <<>> >>,
                               <<"day_of_week", 1>>,
                               <<"sections", <<>> >> >>))

parse_courses_list(courses_list) == ParseCourses(courses_list, <<>>)

\* Lines 202-204: response.json(), resp_json.get("kbList", []) and the
\* parsing of the list.
CoursesOf(text) ==
    LET resp_json == json_loads(text)
    IN  IF ~resp_json.ok THEN StepRaise("JSONDecodeError", <<"json">>, <<>>)
        ELSE IF resp_json.val.t # "obj"
        THEN StepRaise("AttributeError", <<"get">>, <<>>)
        ELSE IF ~ObjHas(resp_json.val.v, FieldCourses) THEN parse_courses_list(<<>>)
        ELSE parse_courses_list(IterItems(ObjGet(resp_json.val.v, FieldCourses)))

\* Bodies of the course query: one course, no course, an object without
\* the list, a list, and the login page a stale session is sent to.
CourseBodies ==
    {json_dumps(JObj(<< <<FieldCourses,
                          JArr(<<JObj(<< <<FieldName, JStr(<<" ", "M">>)>>,
                                         <<FieldTeacher, JStr(<<"T">>)>> >>)>>)>> >>)),
     json_dumps(JObj(<< <<FieldCourses, JArr(<<>>)>> >>)),
     json_dumps(JObj(<<>>)),
     json_dumps(JArr(<<>>)),
     PageWithoutMarker}

CourseResponses ==
    {Response(st, FALSE, <<>>, body, courses_url, <<>>) :
        st \in Statuses, body \in CourseBodies}

\* One call of ems_get_course_schedule on the date `today`.
InitCourse(cookie_jar, year, term, today) ==
    [pc |-> "start", cookie_jar |-> cookie_jar, given |-> cookie_jar,
     year |-> year, term |-> term, today |-> today,
     payload |-> <<>>, requests |-> <<>>, responses |-> <<>>,
     error |-> NoError, result |-> <<>>]

\* Lines 183-204.
EmsGetCourseSchedule ==
    /\ courseCall.pc = "start"
    /\ \E response \in CourseResponses :
        LET payload == CoursePayload(courseCall.year, courseCall.term, courseCall.today)
            st == [courseCall EXCEPT
                      !.payload = payload,
                      !.requests = Append(@, Request("POST", courses_url, TRUE)),
                      !.responses = Append(@, response),
                      !.cookie_jar = JarUpdate(@, response.cookies)]
            step == CoursesOf(response.text)
        IN  courseCall' =
                IF RaisesForStatus(response.status_code)
                THEN [st EXCEPT !.pc = "failed",
                                !.error = HttpError(response.status_code)]
                ELSE IF Failed(step)
                THEN [st EXCEPT !.pc = "failed", !.error = step.err]
                ELSE [st EXCEPT !.pc = "done", !.result = step.val]
    /\ UNCHANGED <<tkVars, sso, ems, rsa, info, examCall, roomCall, gpaCall, pdfCall>>

\* ------------------------------------------------------------------------
\* gpa.py: GPAQueryData and ems_get_gpa
\* ------------------------------------------------------------------------
gpa_url ==
    <<"h", "t", "t", "p", "s", ":", "/", "/", "j", "w", ".", "x", "t", "u", ".", "e", "d", "u", ".", "c", "n", "/", "j", "w", "g", "l", "x", "t", "/", "c", "j", "p", "m", "t", "j", "/", "c", "j", "p", "m", "t", "j", "_", "c", "x", "P", "j", "x", "f", "j", "d", "p", "m", "t", "j", "I", "n", "d", "e", "x", ".", "h", "t", "m", "l", "?", "d", "o", "T", "y", "p", "e", "=", "q", "u", "e", "r", "y", "&", "g", "n", "m", "k", "d", "m", "=", "N", "3", "0", "9", "1", "0", "4">>

\* Lines 33-48: the fields of the query.
GPAQueryData(start_year, end_year, start_term, end_term, filter_option, time) ==
    [start_year |-> start_year, end_year |-> end_year,
     start_term |-> start_term, end_term |-> end_term,
     filter_option |-> filter_option, time |-> time]

\* Lines 53-57: xbx_mapping[filter_option]; KeyError (ok = FALSE) for any
\* other option.
XbxOf(filter_option) ==
    CASE filter_option = "Mandatory" -> [ok |-> TRUE, v |-> <<"b", "x">>]
      [] filter_option = "Elective" -> [ok |-> TRUE, v |-> <<"x", "x">>]
      [] filter_option = "All" -> [ok |-> TRUE, v |-> <<>>]
      [] OTHER -> [ok |-> FALSE, v |-> <<>>]

\* The term code of lines 59-60 in the format 02d.
TermCode02d(term) == IF term = 1 THEN <<"0", "3">> ELSE <<"1", "2">>

\* Lines 58-69: the query string, with the clock in milliseconds.
GpaRepr(query_data, now_ms) ==
    LET xbx == XbxOf(query_data.filter_option)
    IN  IF ~xbx.ok THEN StepRaise("KeyError", <<"filter_option">>, <<>>)
        ELSE StepOk(
            <<"q", "s", "X", "n", "x", "q", "=">> \o IntToDec(query_data.start_year) \o TermCode02d(query_data.start_term)
            \o <<"&", "z", "z", "X", "n", "x", "q", "=">> \o IntToDec(query_data.end_year) \o TermCode02d(query_data.end_term)
            \o <<"&", "x", "b", "x", "=">> \o xbx.v
            \o <<"&", "_", "s", "e", "a", "r", "c", "h", "=", "f", "a", "l", "s", "e", "&", "n", "d", "=">> \o IntToDec(now_ms)
            \o <<"&", "q", "u", "e", "r", "y", "M", "o", "d", "e", "l", ".", "s", "h", "o", "w", "C", "o", "u", "n", "t", "=", "5", "0", "&", "q", "u", "e", "r", "y", "M", "o", "d", "e", "l", ".", "c", "u", "r", "r", "e", "n", "t", "P", "a", "g", "e", "=", "1", "&", "q", "u", "e", "r", "y", "M", "o", "d", "e", "l", ".", "s", "o", "r", "t", "N", "a", "m", "e", "=", "x", "h", "+", "&", "q", "u", "e", "r", "y", "M", "o", "d", "e", "l", ".", "s", "o", "r", "t", "O", "r", "d", "e", "r", "=", "a", "s", "c", "&", "t", "i", "m", "e", "=">> \o IntToDec(query_data.time))

\* A response with its Content-Type header.
GpaResponse(status_code, has_location, location, content_type, text, cookies) ==
    [status_code |-> status_code, has_location |-> has_location,
     location |-> location, content_type |-> content_type, text |-> text,
     url |-> gpa_url, cookies |-> cookies]

\* Response.is_redirect: a Location header and one of the redirect statuses.
IsRedirect(response) ==
    response.has_location /\ response.status_code \in {301, 302, 303, 307, 308}

\* Lines 128-131: the default of the terms.
GpaTerms(query_data) ==
    IntToDec(query_data.start_year) \o <<"-">> \o IntToDec(query_data.start_year + 1)
    \o <<"-">> \o IntToDec(query_data.start_term) \o <<" ", "~", " ">>
    \o IntToDec(query_data.end_year) \o <<"-">> \o IntToDec(query_data.end_year + 1)
    \o <<"-">> \o IntToDec(query_data.end_term)

\* dict.get(key, default) on the members of an object.
GetOr(members, key, default) ==
    IF ObjHas(members, key) THEN ObjGet(members, key) ELSE default

\* Lines 121-133: the panel of the first item.
GpaInfoOf(data, query_data) ==
    IF data.t = "arr"
    THEN IF \E i \in 1..Len(data.v) : data.v[i] = JStr(FieldItems)
         THEN StepRaise("TypeError", <<"indices must be integers">>, <<>>)
         ELSE StepOk(<<>>)
    ELSE IF data.t = "str"
    THEN IF IndexFrom(data.v, FieldItems, 0) # NotFound
         THEN StepRaise("TypeError", <<"indices must be integers">>, <<>>)
         ELSE StepOk(<<>>)
    ELSE IF ~ObjHas(data.v, FieldItems) THEN StepOk(<<>>)
    ELSE LET items == ObjGet(data.v, FieldItems)
         IN  IF Len(items.v) = 0 THEN StepOk(<<>>)
             ELSE IF items.t = "obj" THEN StepRaise("KeyError", <<"0">>, <<>>)
             ELSE IF IterItems(items)[1].t # "obj"
             THEN StepRaise("AttributeError", <<"get">>, <<>>)
             ELSE LET gpa_panel == items.v[1].v
                  IN  StepOk(
                        << <<"average_score", GetOr(gpa_panel, <<"p", "j", "c", "j">>, JStr(<<>>))>>,
                           <<"average_gpa", GetOr(gpa_panel, <<"p", "j", "x", "f", "j", "d">>, JStr(<<>>))>>,
                           <<"class_rank", GetOr(gpa_panel, <<"j", "d", "b", "j", "p", "m">>, JStr(<<>>))>>,
                           <<"grade_rank", GetOr(gpa_panel, <<"j", "d", "n", "j", "z", "y", "p", "m">>, JStr(<<>>))>>,
                           <<"terms", GetOr(gpa_panel, <<"t", "e", "r", "m", "s">>, JStr(GpaTerms(query_data)))>> >>)

\* Lines 104-133: what the call makes of the response.
GpaOutcome(response, query_data) ==
    LET data == json_loads(response.text)
    IN  IF IsRedirect(response)
            \/ (300 <= response.status_code /\ response.status_code < 400)
        THEN StepRaise("RuntimeError", <<"Unexpected redirect when requesting GPA data">>, <<>>)
        ELSE IF RaisesForStatus(response.status_code)
        THEN [err |-> HttpError(response.status_code), val |-> <<>>]
        ELSE IF IndexFrom(response.content_type, <<"a", "p", "p", "l", "i", "c", "a", "t", "i", "o", "n", "/", "j", "s", "o", "n">>, 0) = NotFound
        THEN StepRaise("RuntimeError", <<"Expected JSON response for GPA data">>, <<>>)
        ELSE IF ~data.ok
        THEN StepRaise("RuntimeError", <<"Failed to parse GPA response as JSON">>, <<>>)
        ELSE GpaInfoOf(data.val, query_data)

\* Bodies of the GPA query: a panel with one rank, no item, an object
\* without items, and the login page.
GpaBodies ==
    {json_dumps(JObj(<< <<FieldItems,
                          JArr(<<JObj(<< <<<<"p", "j", "c", "j">>, JStr(<<"9", "0">>)>> >>)>>)>> >>)),
     json_dumps(JObj(<< <<FieldItems, JArr(<<>>)>> >>)),
     json_dumps(JObj(<<>>)),
     PageWithoutMarker}

GpaContentTypes ==
    {<<"a", "p", "p", "l", "i", "c", "a", "t", "i", "o", "n", "/", "j", "s", "o", "n", ";", "c", "h", "a", "r", "s", "e", "t", "=", "U", "T", "F", "-", "8">>,
     <<"t", "e", "x", "t", "/", "h", "t", "m", "l">>}

GpaResponses ==
    {GpaResponse(st, FALSE, <<>>, content_type, body, <<>>) :
        st \in Statuses, content_type \in GpaContentTypes, body \in GpaBodies}
    \cup {GpaResponse(st, TRUE, login_url, <<"t", "e", "x", "t", "/", "h", "t", "m", "l">>, <<>>,
                      <<Cookie(<<"s">>, <<"1">>, <<"x">>, <<"/">>)>>) :
            st \in {200, 302}}

GpaQueries ==
    {GPAQueryData(2023, 2024, start_term, end_term, filter_option, 0) :
        start_term \in {1, 2}, end_term \in {1, 2},
        filter_option \in {"All", "Mandatory", "Elective", "None"}}

\* One call of ems_get_gpa at the time now_ms.
InitGpa(input_cookies, gpa_query_data, now_ms) ==
    [pc |-> "start", cookie_jar |-> input_cookies, given |-> input_cookies,
     query_data |-> gpa_query_data, now_ms |-> now_ms,
     payload |-> <<>>, requests |-> <<>>, responses |-> <<>>,
     error |-> NoError, result |-> <<>>]

\* Lines 86-133: the query string is built in the session, as the
\* arguments of the POST are evaluated.
EmsGetGpa ==
    /\ gpaCall.pc = "start"
    /\ LET payload == GpaRepr(gpaCall.query_data, gpaCall.now_ms)
       IN  IF Failed(payload)
           THEN gpaCall' = [gpaCall EXCEPT !.pc = "failed", !.error = payload.err]
           ELSE \E response \in GpaResponses :
                LET st == [gpaCall EXCEPT
                              !.payload = payload.val,
                              !.requests = Append(@, Request("POST", gpa_url, FALSE)),
                              !.responses = Append(@, response),
                              !.cookie_jar = JarUpdate(@, response.cookies)]
                    step == GpaOutcome(response, gpaCall.query_data)
                IN  gpaCall' =
                        IF Failed(step)
                        THEN [st EXCEPT !.pc = "failed", !.error = step.err]
                        ELSE [st EXCEPT !.pc = "done", !.result = step.val]
    /\ UNCHANGED <<tkVars, sso, ems, rsa, info, examCall, roomCall, courseCall, pdfCall>>

\* ------------------------------------------------------------------------
\* transcript.py: ems_download_transcript
\* ------------------------------------------------------------------------
index_url ==
    <<"h", "t", "t", "p", "s", ":", "/", "/", "j", "w", ".", "x", "t", "u", ".", "e", "d", "u", ".", "c", "n", "/", "j", "w", "g", "l", "x", "t", "/", "b", "y", "s", "x", "x", "c", "x", "/", "x", "s", "c", "j", "z", "b", "d", "y", "_", "c", "x", "X", "s", "C", "o", "u", "n", "t", ".", "h", "t", "m", "l", "?", "g", "n", "m", "k", "d", "m", "=", "N", "5", "5", "8", "0", "2", "0">>

list_url ==
    <<"h", "t", "t", "p", "s", ":", "/", "/", "j", "w", ".", "x", "t", "u", ".", "e", "d", "u", ".", "c", "n", "/", "j", "w", "g", "l", "x", "t", "/", "b", "y", "s", "x", "x", "c", "x", "/", "x", "s", "c", "j", "z", "b", "d", "y", "_", "d", "y", "L", "i", "s", "t", ".", "h", "t", "m", "l", "?", "g", "n", "m", "k", "d", "m", "=", "N", "5", "5", "8", "0", "2", "0">>

\* str.replace(c, "") for a character c.
RemoveChar(s, c) == SelectSeq(s, LAMBDA x : x # c)

\* str.strip(c) for a character c.
RECURSIVE StripChar(_, _)
StripChar(s, c) ==
    IF s = <<>> THEN s
    ELSE IF Head(s) = c THEN StripChar(Tail(s), c)
    ELSE IF s[Len(s)] = c THEN StripChar(SubSeq(s, 1, Len(s) - 1), c)
    ELSE s

\* Lines 222-224: the address of the document, from the body of the list
\* request.
PdfUrl(text) ==
    LET resource_url == StripChar(RemoveChar(Strip(text), "\\"), "\"")
    IN  <<"h", "t", "t", "p", "s", ":", "/", "/", "j", "w", ".", "x", "t", "u", ".", "e", "d", "u", ".", "c", "n">> \o resource_url

\* The first characters of a PDF document.
PdfHeader == <<"%", "P", "D", "F">>

\* Lines 122-179 on the documents of the model: bytes that are no PDF make
\* pdfplumber.open raise; the PDF of the model has a first page without
\* text and without table, so every field is empty, scores is the empty
\* list and line 149 returns.
parse_transcript_pdf(pdf_bytes) ==
    IF ~StartsWith(pdf_bytes, PdfHeader)
    THEN StepRaise("PDFSyntaxError", <<"No /Root object! - Is this really a PDF?">>, <<>>)
    ELSE StepOk(<< <<"college", <<>> >>, <<"major", <<>> >>,
                   <<"student_id", <<>> >>, <<"name", <<>> >>,
                   <<"scores", <<>> >> >>)

\* What the portal answers: to the index request, a count or the login
\* page; to the list request, the quoted and escaped path of the document,
\* or the login page; to the last request, the document or the login page.
\* A redirect carries the address of the login page.
TranscriptPath == <<" ", "\"", "\\", "/", "t", "\\", "/", "a", ".", "p", "d", "f", "\"">>

TranscriptAnswers(url, bodies) ==
    {Response(st, FALSE, <<>>, body, url, <<>>) :
        st \in {200, 403, 500}, body \in bodies}
    \cup {Response(302, TRUE, login_url, body, url, cs) :
            body \in {<<>>, PageWithoutMarker},
            cs \in {<<>>, <<Cookie(<<"s">>, <<"1">>, <<"x">>, <<"/">>)>>}}

IndexResponses == TranscriptAnswers(index_url, {<<"1">>, PageWithoutMarker})

ListResponses == TranscriptAnswers(list_url, {TranscriptPath, PageWithoutMarker})

PdfResponses(url) ==
    TranscriptAnswers(url, {PdfHeader \o <<"-", "1", ".", "4">>, PageWithoutMarker})

\* One call of ems_download_transcript.
InitTranscript(cookie_jar) ==
    [pc |-> "start", cookie_jar |-> cookie_jar, given |-> cookie_jar,
     pdf_url |-> <<>>, requests |-> <<>>, responses |-> <<>>,
     error |-> NoError, result |-> <<>>]

\* The call issues `request` in its session, whose jar is the caller's.
TranscriptExchange(st, request, response) ==
    [st EXCEPT !.requests = Append(@, request),
               !.responses = Append(@, response),
               !.cookie_jar = JarUpdate(@, response.cookies)]

\* Lines 206-210.
PostTranscriptIndex ==
    /\ pdfCall.pc = "start"
    /\ \E response \in IndexResponses :
        LET st == TranscriptExchange(pdfCall, Request("POST", index_url, FALSE), response)
        IN  pdfCall' = IF RaisesForStatus(response.status_code)
                       THEN Raise(st, HttpError(response.status_code))
                       ELSE [st EXCEPT !.pc = "index"]
    /\ UNCHANGED <<tkVars, sso, ems, rsa, info, examCall, roomCall, courseCall, gpaCall>>

\* Lines 212-224.
PostTranscriptList ==
    /\ pdfCall.pc = "index"
    /\ \E response \in ListResponses :
        LET st == TranscriptExchange(pdfCall, Request("POST", list_url, FALSE), response)
        IN  pdfCall' = IF RaisesForStatus(response.status_code)
                       THEN Raise(st, HttpError(response.status_code))
                       ELSE [st EXCEPT !.pc = "list", !.pdf_url = PdfUrl(response.text)]
    /\ UNCHANGED <<tkVars, sso, ems, rsa, info, examCall, roomCall, courseCall, gpaCall>>

\* Lines 226-229.
GetTranscriptPdf ==
    /\ pdfCall.pc = "list"
    /\ \E pdf_response \in PdfResponses(pdfCall.pdf_url) :
        LET st == TranscriptExchange(pdfCall, Request("GET", pdfCall.pdf_url, FALSE),
                                     pdf_response)
            step == parse_transcript_pdf(pdf_response.text)
        IN  pdfCall' = IF RaisesForStatus(pdf_response.status_code)
                       THEN Raise(st, HttpError(pdf_response.status_code))
                       ELSE IF Failed(step) THEN Raise(st, step.err)
                       ELSE [st EXCEPT !.pc = "done", !.result = step.val]
    /\ UNCHANGED <<tkVars, sso, ems, rsa, info, examCall, roomCall, courseCall, gpaCall>>

\* ------------------------------------------------------------------------
\* Specifications.
\* ------------------------------------------------------------------------
Attempts == {"a1"}

IdleCodec ==
    /\ tkPc = "idle" /\ tkJar = EmptyJar /\ tkFlag = FALSE
    /\ tkToken = <<>> /\ tkDecFlag = FALSE /\ tkOut = NotDecoded /\ tkToken2 = <<>>

IdleSso ==
    sso = [a \in Attempts |->
            [InitAttempt("202105566123", <<"A">>) EXCEPT !.pc = "idle"]]

IdleEms == ems = [InitExchange(EmptyJar) EXCEPT !.pc = "idle"]

IdleRsa == rsa = [InitRsa(3, 33, <<>>) EXCEPT !.pc = "idle"]

IdleInfo == info = [InitInfo(EmptyJar) EXCEPT !.pc = "idle"]

IdleExam ==
    examCall = [InitExam(EmptyJar, None, None, Date(2025, 1), 0) EXCEPT !.pc = "idle"]

IdleRoom ==
    roomCall = [InitRoom(EmptyJar, ClassroomQueryData(2024, 1, <<>>, 1, <<>>, 0), 0)
                    EXCEPT !.pc = "idle"]

IdleCourse ==
    courseCall = [InitCourse(EmptyJar, None, None, Date(2025, 1)) EXCEPT !.pc = "idle"]

IdleGpa ==
    gpaCall = [InitGpa(EmptyJar, GPAQueryData(2023, 2024, 1, 2, "All", 0), 0)
                    EXCEPT !.pc = "idle"]

IdlePdf == pdfCall = [InitTranscript(EmptyJar) EXCEPT !.pc = "idle"]

IdleQuery == IdleRoom /\ IdleCourse /\ IdleGpa /\ IdlePdf

IdleLib == IdleRsa /\ IdleInfo /\ IdleExam /\ IdleQuery

\* sso_auth: every attempt is called with some username and password.
Init ==
    /\ sso \in [Attempts -> {InitAttempt(u, p) : u \in Usernames, p \in Passwords}]
    /\ IdleCodec
    /\ IdleEms
    /\ IdleLib

Next ==
    \E a \in Attempts :
        \/ FetchKey(a)
        \/ FetchLoginPage(a)
        \/ SubmitCredentials(a)
        \/ FollowRedirect(a)

Spec == Init /\ [][Next]_vars

\* The token codec on every jar that MaxCookies calls of set can build.
InitCodec ==
    /\ tkPc = "jar"
    /\ tkJar \in JarsBuiltBy(Cookies, MaxCookies)
    /\ tkFlag \in BOOLEAN
    /\ tkToken = <<>> /\ tkDecFlag = FALSE /\ tkOut = NotDecoded /\ tkToken2 = <<>>
    /\ IdleSso
    /\ IdleEms
    /\ IdleLib

NextCodec == Serialize \/ Deserialize \/ Reserialize

SpecCodec == InitCodec /\ [][NextCodec]_vars

\* ems_auth_with_sso on every jar built from the cookies a server sets.
InitEms ==
    /\ ems \in {InitExchange(jar) : jar \in JarsBuiltBy(ServerCookies, MaxCookies)}
    /\ IdleCodec
    /\ IdleSso
    /\ IdleLib

NextEms == EmsAuthWithSso

SpecEms == InitEms /\ [][NextEms]_vars

\* deserialize_token on a token of the command line, with either flag.
InitArgs ==
    /\ tkPc = "argv"
    /\ tkToken \in ArgumentTokens
    /\ tkFlag \in BOOLEAN
    /\ tkJar = EmptyJar /\ tkDecFlag = FALSE /\ tkOut = NotDecoded /\ tkToken2 = <<>>
    /\ IdleSso
    /\ IdleEms
    /\ IdleLib

NextArgs == DeserializeArgument

SpecArgs == InitArgs /\ [][NextArgs]_vars

\* rsa_encrypt on every exponent, modulus and plaintext of the model.
InitRsaRun ==
    /\ rsa \in {InitRsa(e, n, plaintext) :
                    e \in RsaExponents, n \in RsaModuli, plaintext \in RsaPlaintexts}
    /\ IdleCodec
    /\ IdleSso
    /\ IdleEms
    /\ IdleInfo
    /\ IdleExam
    /\ IdleQuery

NextRsa == RsaEncrypt \/ RsaEncryptAgain

SpecRsa == InitRsaRun /\ [][NextRsa]_vars

\* ems_get_info on every jar built from the cookies a server sets.
InitInfoRun ==
    /\ info \in {InitInfo(jar) : jar \in JarsBuiltBy(ServerCookies, MaxCookies)}
    /\ IdleCodec
    /\ IdleSso
    /\ IdleEms
    /\ IdleRsa
    /\ IdleExam
    /\ IdleQuery

NextInfo == EmsGetInfo

SpecInfo == InitInfoRun /\ [][NextInfo]_vars

\* ems_get_exam_schedule with every year and term, given or left out.
InitExamRun ==
    /\ examCall \in {InitExam(EmptyJar, year, term, today, now_ms) :
                    year \in ExamYears, term \in ExamTerms,
                    today \in ExamDates, now_ms \in ExamClocks}
    /\ IdleCodec
    /\ IdleSso
    /\ IdleEms
    /\ IdleRsa
    /\ IdleInfo
    /\ IdleQuery

NextExam == EmsGetExamSchedule

SpecExam == InitExamRun /\ [][NextExam]_vars

\* Two callers log in at the same time: the steps of two sso_auth calls
\* interleave in any order. The servers' answers are drawn from a part of
\* the answers of the single call: two keys, two login pages, and at each
\* step one answer that ends the call.
PairAttempts == {"a1", "a2"}

PairKeyResponses ==
    {Response(200, FALSE, <<>>, body, key_url, <<c>>) :
        body \in HexKeyBodies,
        c \in {Cookie(<<"s">>, <<"1">>, <<"x">>, <<"/">>),
               Cookie(<<"t">>, <<"1">>, <<"x">>, <<"/", "a">>)}}
    \cup {Response(500, FALSE, <<>>, <<"<", ">">>, key_url, <<>>)}

PairPageResponses ==
    {Response(200, FALSE, <<>>, body, login_url, <<>>) :
        body \in PagesWithToken \cup {PageWithoutMarker}}

PairPostResponses ==
    {Response(302, TRUE, login_success_url_prefix, <<>>, login_url, <<>>),
     Response(200, FALSE, <<>>, <<>>, login_url, <<>>)}

PairRedirectResponses ==
    {Response(200, FALSE, <<>>, <<>>, login_success_url_prefix, cs) :
        cs \in {<<>>, <<Cookie(<<"s">>, <<"\"", "\\">>, <<"x">>, <<"/">>)>>}}
    \cup {Response(500, FALSE, <<>>, <<>>, login_success_url_prefix, <<>>)}

PairResponses ==
    PairKeyResponses \cup PairPageResponses \cup PairPostResponses
        \cup PairRedirectResponses

InitPair ==
    /\ sso \in [PairAttempts -> {InitAttempt(u, p) : u \in Usernames, p \in Passwords}]
    /\ sso["a2"].username = "202105566123"
    /\ IdleCodec
    /\ IdleEms
    /\ IdleLib

\* The answer the step of attempt `a` has got is one of PairResponses.
PairAnswer(a) == sso'[a].responses[Len(sso'[a].responses)] \in PairResponses

NextPair ==
    \E a \in PairAttempts :
        \/ FetchKey(a) /\ PairAnswer(a)
        \/ FetchLoginPage(a) /\ PairAnswer(a)
        \/ SubmitCredentials(a) /\ PairAnswer(a)
        \/ FollowRedirect(a) /\ PairAnswer(a)

SpecPair == InitPair /\ [][NextPair]_vars

\* ems_get_classsroom_avaliability on every query of the model.
InitRoomRun ==
    /\ roomCall \in {InitRoom(EmptyJar, query_data, 1700000000) :
                        query_data \in ClassroomQueries}
    /\ IdleCodec
    /\ IdleSso
    /\ IdleEms
    /\ IdleRsa
    /\ IdleInfo
    /\ IdleExam
    /\ IdleCourse
    /\ IdleGpa
    /\ IdlePdf

NextRoom == EmsGetClasssroomAvaliability

SpecRoom == InitRoomRun /\ [][NextRoom]_vars

\* The three operations that take a term are called for one term on one
\* date: the course schedule and the exam schedule with the same year and
\* term, given or left out, and the classroom query, whose year and term
\* are required, when both are given. Each request is answered with a
\* list or with the redirect of a stale session.
TermYears == {None, Some(2024)}
TermTerms == {None, Some(1), Some(2)}

TermAnswers ==
    {Response(200, FALSE, <<>>, json_dumps(JObj(<<>>)), exams_url, <<>>),
     Response(302, FALSE, <<>>, PageWithoutMarker, exams_url, <<>>),
     Response(200, FALSE, <<>>, json_dumps(JObj(<<>>)), courses_url, <<>>),
     Response(302, FALSE, <<>>, PageWithoutMarker, courses_url, <<>>),
     Response(200, FALSE, <<>>, json_dumps(JObj(<< <<FieldItems, JArr(<<>>)>> >>)),
              classroom_status_url, <<>>),
     Response(302, FALSE, <<>>, PageWithoutMarker, classroom_status_url, <<>>)}

InitTermRun ==
    /\ \E year \in TermYears, term \in TermTerms, today \in ExamDates :
        /\ courseCall = InitCourse(EmptyJar, year, term, today)
        /\ examCall = InitExam(EmptyJar, year, term, today, 1700000000)
        /\ roomCall =
             [InitRoom(EmptyJar,
                       ClassroomQueryData(IF year.some THEN year.v ELSE 2024,
                                          IF term.some THEN term.v ELSE 1,
                                          <<1>>, 5, <<1>>, 0),
                       1700000000)
                EXCEPT !.pc = IF year.some /\ term.some THEN "start" ELSE "idle"]
    /\ IdleCodec
    /\ IdleSso
    /\ IdleEms
    /\ IdleRsa
    /\ IdleInfo
    /\ IdleGpa
    /\ IdlePdf

NextTerm ==
    \/ EmsGetCourseSchedule /\ courseCall'.responses[1] \in TermAnswers
    \/ EmsGetExamSchedule /\ examCall'.responses[1] \in TermAnswers
    \/ EmsGetClasssroomAvaliability /\ roomCall'.responses[1] \in TermAnswers

SpecTerm == InitTermRun /\ [][NextTerm]_vars

\* The three operations that issue their requests with redirects not
\* followed: one of them is called.
InitGpaRun ==
    /\ gpaCall \in {InitGpa(EmptyJar, query_data, 1700000000) : query_data \in GpaQueries}
    /\ IdleCodec
    /\ IdleSso
    /\ IdleEms
    /\ IdleRsa
    /\ IdleInfo
    /\ IdleExam
    /\ IdleRoom
    /\ IdleCourse
    /\ IdlePdf

InitTranscriptRun ==
    /\ pdfCall \in {InitTranscript(jar) : jar \in JarsBuiltBy(ServerCookies, 1)}
    /\ IdleCodec
    /\ IdleSso
    /\ IdleEms
    /\ IdleRsa
    /\ IdleInfo
    /\ IdleExam
    /\ IdleRoom
    /\ IdleCourse
    /\ IdleGpa

InitQueries == InitRoomRun \/ InitGpaRun \/ InitTranscriptRun

NextQueries ==
    \/ EmsGetClasssroomAvaliability
    \/ EmsGetGpa
    \/ PostTranscriptIndex
    \/ PostTranscriptList
    \/ GetTranscriptPdf

SpecQueries == InitQueries /\ [][NextQueries]_vars

\* The toolkit as a whole: one of the operations that hold or produce a
\* cookie jar is run (a login, a token round trip, an exchange, or the
\* decoding of a token of the command line).
InitSystem == Init \/ InitCodec \/ InitEms \/ InitArgs

NextSystem == Next \/ NextCodec \/ NextEms \/ NextArgs

SpecSystem == InitSystem /\ [][NextSystem]_vars

\* ------------------------------------------------------------------------
\* Vocabulary of the properties.
\* ------------------------------------------------------------------------
\* p is a prefix of s.
HasPrefix(s, p) == \E n \in 0..Len(s) : SubSeq(s, 1, n) = p

\* The cookies a session that began with `jar` holds after `responses`.
RECURSIVE AccumulatedCookies(_, _)
AccumulatedCookies(jar, responses) ==
    IF responses = <<>> THEN jar
    ELSE AccumulatedCookies(JarUpdate(jar, Head(responses).cookies),
                            Tail(responses))

\* The error kinds of the specification, as the exceptions the code raises.
ServiceUnavailableError(e) ==
    /\ e.type = "Exception"
    /\ e.args \in {<<"CAS Key Service was unavailable">>,
                   <<"CAS Login Page was unavailable">>}

InvalidCredentialsError(e) ==
    e.type = "Exception" /\ e.args = <<"Invalid username or password">>

AccountDisabledError(e) == e.type = "Exception" /\ e.args = <<"Account disabled">>

LoginFailedError(e) == e.type = "Exception" /\ e.args = <<"login failed">>

TicketNotFoundError(e) == e.type = "Exception" /\ e.args = <<"ticket URL not found">>

PasswordChangeRequiredError(e, username) ==
    e.type = "Exception" /\ e.args = <<username, "Please change password first.">>

\* The answers that let each step of the handshake go on.
KeyResponseGood(r) == r.status_code = 200 /\ r.text \in HexKeyBodies

PageResponseGood(r) == r.status_code = 200 /\ r.text \in PagesWithToken

PostResponseGood(r) ==
    /\ r.status_code = 302
    /\ r.has_location
    /\ HasPrefix(r.location, login_success_url_prefix)

FollowResponseGood(r) == r.status_code = 200

ResponseGood(k, r) ==
    CASE k = 1 -> KeyResponseGood(r)
      [] k = 2 -> PageResponseGood(r)
      [] k = 3 -> PostResponseGood(r)
      [] k = 4 -> FollowResponseGood(r)

\* ------------------------------------------------------------------------
\* Properties.
\* ------------------------------------------------------------------------
\* C1: decoding a token with the flag it was encoded with gives back the
\* jar's cookies: no error, and the same set of (name, value, domain, path)
\* four-tuples, for every jar whose entries are unique by (name, domain,
\* path) and for both values of the compressed flag.
C1_RoundTrip ==
    (tkPc \in {"decoded", "reencoded"} /\ tkDecFlag = tkFlag)
        => /\ JarKeysUnique(tkJar)
           /\ tkOut.err = "none"
           /\ JarTuples(tkOut.jar) = JarTuples(tkJar)

\* A compressed token of two cookies of one name in two domains, one value
\* holding a quote and a backslash, has been decoded.
C1_Witness ==
    /\ tkPc = "decoded" /\ tkFlag /\ tkDecFlag
    /\ Len(tkJar) = 2
    /\ tkJar[1].name = tkJar[2].name /\ tkJar[1].domain # tkJar[2].domain
    /\ tkJar[1].value = <<"\"", "\\">>
    /\ tkOut.err = "none"

\* C2: an attempt whose key response is a success with a hexadecimal
\* modulus and exponent, whose login page is a success with a non-empty
\* execution token, whose login POST is answered 302 with a Location under
\* the login-success prefix and whose redirect target answers 200 never
\* fails, and after the fourth answer it has returned the cookies its own
\* session accumulated.
C2_HandshakeCompletes ==
    \A a \in Attempts :
        LET r == sso[a].responses
        IN  (sso[a].pc # "idle" /\ \A k \in 1..Len(r) : ResponseGood(k, r[k]))
                => /\ sso[a].pc # "failed"
                   /\ sso[a].error = NoError
                   /\ Len(r) = 4 =>
                        /\ sso[a].pc = "done"
                        /\ sso[a].result = AccumulatedCookies(EmptyJar, r)

\* An attempt has returned a jar of two cookies.
C2_Witness ==
    \E a \in Attempts :
        /\ sso[a].pc = "done"
        /\ \A k \in 1..4 : ResponseGood(k, sso[a].responses[k])
        /\ Len(sso[a].result) = 2

\* C3: a login POST answer that is not a 302 with a Location header ends
\* the attempt by its status: 200 invalid credentials, 403 account disabled,
\* anything else login failed; the redirect target is not requested.
C3_PostStatusDecides ==
    \A a \in Attempts :
        LET r == sso[a].responses
        IN  (Len(r) >= 3 /\ ~(r[3].status_code = 302 /\ r[3].has_location))
                => /\ sso[a].pc = "failed"
                   /\ Len(sso[a].requests) = 3
                   /\ sso[a].result = EmptyJar
                   /\ IF r[3].status_code = 200
                      THEN InvalidCredentialsError(sso[a].error)
                      ELSE IF r[3].status_code = 403
                      THEN AccountDisabledError(sso[a].error)
                      ELSE LoginFailedError(sso[a].error)

\* A login POST has been answered 302 without a Location header.
C3_Witness ==
    \E a \in Attempts :
        /\ Len(sso[a].responses) = 3
        /\ sso[a].responses[3].status_code = 302
        /\ ~sso[a].responses[3].has_location
        /\ sso[a].pc = "failed"

\* C4: after a 302 with a Location, a target under the password-change
\* prefix fails with the password-change error carrying the username, any
\* other target not under the login-success prefix fails with ticket not
\* found, and neither is requested; a fourth request is issued only for a
\* target under the login-success prefix, and it is a GET of that target.
C4_RedirectClassified ==
    \A a \in Attempts :
        LET r == sso[a].responses
            q == sso[a].requests
        IN  (Len(r) >= 3 /\ r[3].status_code = 302 /\ r[3].has_location)
                => IF HasPrefix(r[3].location, modify_password_url_prefix)
                   THEN /\ sso[a].pc = "failed" /\ Len(q) = 3
                        /\ PasswordChangeRequiredError(sso[a].error, sso[a].username)
                   ELSE IF ~HasPrefix(r[3].location, login_success_url_prefix)
                   THEN /\ sso[a].pc = "failed" /\ Len(q) = 3
                        /\ TicketNotFoundError(sso[a].error)
                   ELSE /\ Len(q) = 3 => sso[a].pc = "redirect"
                        /\ Len(q) = 4 => q[4] = Request("GET", r[3].location, TRUE)

\* The second user's attempt was sent to the password-change page (with a
\* query after the prefix) and failed carrying that user's name.
C4_Witness ==
    \E a \in Attempts :
        /\ sso[a].pc = "failed"
        /\ Len(sso[a].responses) = 3
        /\ sso[a].responses[3].location = modify_password_url_prefix \o <<"?", "a">>
        /\ sso[a].username = "202105566124"
        /\ sso[a].error.args[1] = "202105566124"

\* C5: ems_auth_with_sso issues one GET of the bridging endpoint with
\* redirects followed, in a session that holds the given cookies; a final
\* URL that is not under the homepage prefix fails with an error that
\* carries that URL and returns nothing, any other final URL returns the
\* session's cookies.
C5_ExchangeByFinalUrl ==
    ems.pc \in {"done", "failed"}
        => /\ ems.requests = <<Request("GET", auth_url, TRUE)>>
           /\ Len(ems.responses) = 1
           /\ ems.final_url = ems.responses[1].url
           /\ IF ~HasPrefix(ems.final_url, homepage_url_prefix)
              THEN /\ ems.pc = "failed"
                   /\ ems.error.type = "Exception"
                   /\ ems.error.url = ems.final_url
                   /\ ems.result = EmptyJar
              ELSE /\ ems.pc = "done"
                   /\ ems.error = NoEmsError
                   /\ ems.result = AccumulatedCookies(ems.given, ems.responses)

\* An exchange that started with a cookie ended on the login page of the
\* identity provider.
C5_Witness ==
    /\ ems.pc = "failed"
    /\ ems.final_url = login_url
    /\ Len(ems.given) = 1
    /\ ems.error.url = login_url

\* C6: sso_auth has no partial success: an attempt that has returned got
\* four good answers, one per request, and raised nothing; an attempt with
\* any answer that is not good has failed with an exception; and no attempt
\* that has not returned holds a result.
C6_NoPartialSuccess ==
    \A a \in Attempts :
        LET r == sso[a].responses
        IN  /\ sso[a].pc = "done" =>
                /\ Len(r) = 4
                /\ \A k \in 1..4 : ResponseGood(k, r[k])
                /\ sso[a].error = NoError
            /\ (\E k \in 1..Len(r) : ~ResponseGood(k, r[k])) =>
                /\ sso[a].pc = "failed"
                /\ sso[a].error.type # "none"
            /\ sso[a].pc # "done" => sso[a].result = EmptyJar

\* An attempt failed at the last step with cookies in its session.
C6_Witness ==
    \E a \in Attempts :
        /\ sso[a].pc = "failed"
        /\ Len(sso[a].responses) = 4
        /\ sso[a].cookies # EmptyJar
        /\ sso[a].result = EmptyJar

\* The request the k-th call of an attempt must be.
ExpectedRequest(a, k) ==
    CASE k = 1 -> Request("GET", key_url, TRUE)
      [] k = 2 -> Request("GET", login_url, TRUE)
      [] k = 3 -> Request("POST", login_url, FALSE)
      [] k = 4 -> Request("GET", sso[a].responses[3].location, TRUE)

\* C7: the requests of an attempt are, in this order and once each, the key
\* GET, the login-page GET, the credentials POST and the redirect-target
\* GET; each is issued only after a good answer to the one before; an
\* attempt that returned issued exactly 4, and a failed attempt issued
\* nothing after the request whose answer made it fail.
C7_RequestOrder ==
    \A a \in Attempts :
        LET q == sso[a].requests
            r == sso[a].responses
        IN  /\ Len(q) <= 4
            /\ Len(r) = Len(q)
            /\ \A k \in 1..Len(q) : q[k] = ExpectedRequest(a, k)
            /\ \A k \in 2..Len(q) : ResponseGood(k - 1, r[k - 1])
            /\ sso[a].pc = "done" => Len(q) = 4
            /\ sso[a].pc = "failed" =>
                /\ Len(q) >= 1
                /\ ~ResponseGood(Len(q), r[Len(q)])

\* An attempt returned after its four requests.
C7_Witness ==
    \E a \in Attempts : sso[a].pc = "done" /\ Len(sso[a].requests) = 4

\* C8: a key GET or a login-page GET answered with a status other than 200
\* fails the attempt with the service-unavailable error, and that request
\* is the attempt's last: the credentials are never posted.
C8_ServiceUnavailable ==
    \A a \in Attempts :
        LET q == sso[a].requests
            r == sso[a].responses
        IN  \A k \in {1, 2} :
                (Len(r) >= k /\ r[k].status_code # 200)
                    => /\ sso[a].pc = "failed"
                       /\ ServiceUnavailableError(sso[a].error)
                       /\ Len(q) = k
                       /\ \A j \in 1..Len(q) : q[j].method # "POST"
                       /\ sso[a].payload = NoPayload

\* The login page was answered 403 after a good key response.
C8_Witness ==
    \E a \in Attempts :
        /\ Len(sso[a].responses) = 2
        /\ sso[a].responses[2].status_code = 403
        /\ sso[a].pc = "failed"

\* The login page holds no execution marker.
MarkerAbsent(text) ==
    \A i \in 1..(Len(text) - Len(ExecutionMarker) + 1) :
        SubSeq(text, i, i + Len(ExecutionMarker) - 1) # ExecutionMarker

\* C9: a login page answered 200 whose body lacks the execution marker, or
\* whose token is empty, fails the attempt with the service-unavailable
\* error, and the credentials are not posted.
C9_NoTokenIsUnavailable ==
    \A a \in Attempts :
        LET q == sso[a].requests
            r == sso[a].responses
        IN  (/\ Len(r) >= 2
             /\ r[2].status_code = 200
             /\ (MarkerAbsent(r[2].text) \/ r[2].text = PageWithEmptyToken))
                => /\ sso[a].pc = "failed"
                   /\ ServiceUnavailableError(sso[a].error)
                   /\ Len(q) = 2

\* C10: the redirect target is requested with GET; a final status of 200
\* returns the cookies of the attempt's session, any other status fails
\* with login failed and returns nothing.
C10_FollowRedirect ==
    \A a \in Attempts :
        LET q == sso[a].requests
            r == sso[a].responses
        IN  Len(r) = 4
                => /\ q[4].method = "GET"
                   /\ q[4].url = sso[a].redirect_url
                   /\ IF r[4].status_code = 200
                      THEN /\ sso[a].pc = "done"
                           /\ sso[a].result = sso[a].cookies
                           /\ sso[a].result = AccumulatedCookies(EmptyJar, r)
                      ELSE /\ sso[a].pc = "failed"
                           /\ LoginFailedError(sso[a].error)
                           /\ sso[a].result = EmptyJar

\* The redirect target answered 302 and set a cookie.
C10_Witness ==
    \E a \in Attempts :
        /\ Len(sso[a].responses) = 4
        /\ sso[a].responses[4].status_code = 302
        /\ sso[a].responses[4].cookies # <<>>
        /\ sso[a].pc = "failed"

\* The FormatError of the specification, as the exceptions deserialize_token
\* ends with (the code raises the library's own): no jar is returned.
FormatErrors ==
    {"binascii.Error", "OSError", "UnicodeDecodeError", "JSONDecodeError",
     "TypeError", "KeyError"}

FormatError(out) == out.err \in FormatErrors /\ out.jar = EmptyJar

\* C11: a token decoded with the other flag than the one it was encoded
\* with (compressed read as plain JSON, plain JSON read as compressed, the
\* token of the empty jar included) always ends in a FormatError and no jar
\* is returned.
C11_FlagMismatchFails ==
    (tkPc \in {"decoded", "reencoded"} /\ tkDecFlag # tkFlag)
        => /\ tkPc = "decoded"
           /\ FormatError(tkOut)

\* The plain token of a jar of two cookies has been decoded as compressed
\* and the decompression has failed.
C11_Witness ==
    /\ tkPc = "decoded" /\ ~tkFlag /\ tkDecFlag
    /\ Len(tkJar) = 2
    /\ tkOut.err = "OSError"

\* The text a token holds once the encoding that `compressed` names is
\* undone; ok = FALSE when the decoding or the decompression fails.
TokenText(token, compressed) ==
    IF ~compressed THEN [ok |-> TRUE, text |-> token]
    ELSE LET decoded == urlsafe_b64decode(token)
             plain == bz2_decompress(decoded.bytes)
         IN  IF decoded.ok /\ plain.ok /\ Utf8Valid(plain.bytes)
             THEN [ok |-> TRUE, text |-> Utf8Decode(plain.bytes)]
             ELSE [ok |-> FALSE, text |-> <<>>]

\* An array of objects that each have the four fields.
CookieArray(val) ==
    /\ val.t = "arr"
    /\ \A i \in 1..Len(val.v) :
        /\ val.v[i].t = "obj"
        /\ \A k \in 1..Len(AllFields) : ObjHas(val.v[i].v, AllFields[k])

WellFormedToken(token, compressed) ==
    LET doc == TokenText(token, compressed)
    IN  /\ doc.ok
        /\ json_loads(doc.text).ok
        /\ CookieArray(json_loads(doc.text).val)

\* C12: a token whose decoding or decompression fails, or whose JSON is no
\* array of objects that each have the four fields (an empty object, a
\* string, a record missing a field), ends deserialize_token in a
\* FormatError; it is never decoded to a jar, empty or not.
C12_MalformedRejected ==
    (tkPc = "parsed" /\ ~WellFormedToken(tkToken, tkFlag)) => FormatError(tkOut)

\* The alphabet of a URL-safe token: letters, digits, "-", "_" and "=".
UrlSafe(token) ==
    \A i \in 1..Len(token) :
        token[i] = "=" \/ \E v \in 1..Len(B64) : B64[v] = token[i]

\* The record is an object of exactly the four fields key, value, host and
\* path, holding the cookie's name, value, domain and path.
RecordOf(record, cookie) ==
    /\ record.t = "obj"
    /\ Len(record.v) = 4
    /\ \A k \in 1..Len(AllFields) : ObjHas(record.v, AllFields[k])
    /\ ObjGet(record.v, FieldKey) = JStr(cookie.name)
    /\ ObjGet(record.v, FieldValue) = JStr(cookie.value)
    /\ ObjGet(record.v, FieldHost) = JStr(cookie.domain)
    /\ ObjGet(record.v, FieldPath) = JStr(cookie.path)

\* C13: the token of serialize_token holds a JSON array with one record per
\* cookie of the jar, in the jar's iteration order, each record with exactly
\* the fields key, value, host, path of that cookie; the compressed token is
\* URL-safe text that decodes and decompresses to that same JSON text.
C13_TokenShape ==
    (tkPc = "token")
        => LET doc == TokenText(tkToken, tkFlag)
               parsed == json_loads(doc.text)
           IN  /\ doc.ok
               /\ parsed.ok
               /\ parsed.val.t = "arr"
               /\ Len(parsed.val.v) = Len(tkJar)
               /\ \A i \in 1..Len(tkJar) : RecordOf(parsed.val.v[i], tkJar[i])
               /\ tkFlag => /\ UrlSafe(tkToken)
                            /\ doc.text = serialize_token(tkJar, FALSE)
                            /\ tkToken = urlsafe_b64encode(
                                            bz2_compress(Utf8Encode(doc.text)))

\* A jar of two cookies of different names has been serialized, compressed.
C13_Witness ==
    /\ tkPc = "token" /\ tkFlag
    /\ Len(tkJar) = 2
    /\ tkJar[1].name # tkJar[2].name
    /\ Len(tkToken) > 0

\* The big-endian unsigned integer of a byte string: byte i weighs
\* 256^(n - i).
RECURSIVE Pow256(_)
Pow256(k) == IF k = 0 THEN 1 ELSE 256 * Pow256(k - 1)

RECURSIVE BigEndianFrom(_, _)
BigEndianFrom(bs, i) ==
    IF i > Len(bs) THEN 0
    ELSE bs[i] * Pow256(Len(bs) - i) + BigEndianFrom(bs, i + 1)

\* m^k mod n by k multiplications, each reduced.
PowerMod[k \in Nat, m \in Nat, n \in Nat] ==
    IF k = 0 THEN 1 % n ELSE (PowerMod[k - 1, m, n] * (m % n)) % n

\* m^e mod n as (m^16)^(e div 16) * m^(e mod 16), each power by repeated
\* multiplication.
PowerModBy16(e, m, n) ==
    (PowerMod[e \div 16, PowerMod[16, m, n], n] * PowerMod[e % 16, m, n]) % n

\* Lowercase hexadecimal with no prefix and no leading zero.
PlainLowerHex(text) ==
    /\ text # <<>>
    /\ \A i \in 1..Len(text) : \E v \in 1..16 : HexDigits[v] = text[i]
    /\ Len(text) > 1 => text[1] # "0"

\* C14: rsa_encrypt(e, n, plaintext) is the lowercase hexadecimal number,
\* without prefix or leading zeros, of m^e mod n, m being the big-endian
\* integer of the plaintext's UTF-8 bytes, also when m >= n; a second call
\* with the same arguments gives the same text; (17, 3233, "A") gives the
\* digits of 65^17 mod 3233 = 2790.
C14_RsaEncrypt ==
    (rsa.pc \in {"once", "twice"})
        => LET m == BigEndianFrom(Utf8Encode(rsa.plaintext), 1)
               c == PowerModBy16(rsa.encrypt_exponent, m, rsa.modulus)
           IN  /\ PlainLowerHex(rsa.first)
               /\ HexToInt(rsa.first) = c
               /\ rsa.pc = "twice" => rsa.second = rsa.first
               /\ (rsa.encrypt_exponent = 17 /\ rsa.modulus = 3233
                        /\ rsa.plaintext = <<"A">>)
                    => rsa.first = <<"a", "e", "6">>

\* A plaintext whose integer is above the modulus has been encrypted twice
\* with the toy key, and the result has a digit above 9.
C14_Witness ==
    /\ rsa.pc = "twice"
    /\ rsa.encrypt_exponent = 17 /\ rsa.modulus = 3233
    /\ rsa.plaintext = <<"A", "B">>
    /\ BigEndianFrom(Utf8Encode(rsa.plaintext), 1) >= rsa.modulus
    /\ rsa.second = <<"8", "3", "b">>

\* The (name, domain, path) of a cookie, and those of a jar's entries.
KeyOf(c) == <<c.name, c.domain, c.path>>

JarKeys(jar) == {KeyOf(jar[i]) : i \in 1..Len(jar)}

\* The (name, domain, path) of the records of a token's array.
RecordKeys(val) ==
    {<<ObjGet(val.v[i].v, FieldKey).v, ObjGet(val.v[i].v, FieldHost).v,
       ObjGet(val.v[i].v, FieldPath).v>> : i \in 1..Len(val.v)}

\* The (name, domain, path) of the cookies a sequence of responses set.
ResponseKeys(responses) ==
    UNION {JarKeys(responses[i].cookies) : i \in 1..Len(responses)}

\* C15: no jar the system holds or returns has two entries of one (name,
\* domain, path): the jar decoded from any accepted token, the session jar
\* and the result of every sso_auth attempt, and the jar and the result of
\* ems_auth_with_sso; and every (name, domain, path) that was set has its
\* own entry, so one name in two domains or paths is two entries.
C15_KeysUnique ==
    /\ (tkPc \in {"decoded", "reencoded", "parsed"} /\ tkOut.err = "none")
        => /\ JarKeysUnique(tkOut.jar)
           /\ tkPc # "parsed" => JarKeys(tkOut.jar) = JarKeys(tkJar)
           /\ (tkPc = "parsed" /\ WellFormedToken(tkToken, tkFlag))
                => JarKeys(tkOut.jar)
                     = RecordKeys(json_loads(TokenText(tkToken, tkFlag).text).val)
    /\ \A a \in DOMAIN sso :
        /\ JarKeysUnique(sso[a].cookies)
        /\ JarKeys(sso[a].cookies) = ResponseKeys(sso[a].responses)
        /\ sso[a].pc = "done"
            => /\ JarKeysUnique(sso[a].result)
               /\ JarKeys(sso[a].result) = ResponseKeys(sso[a].responses)
    /\ JarKeysUnique(ems.cookie_jar)
    /\ ems.pc = "done"
        => /\ JarKeysUnique(ems.result)
           /\ JarKeys(ems.result)
                = JarKeys(ems.given) \cup ResponseKeys(ems.responses)

\* A token of three records has been decoded: a cookie, the same name in
\* another domain, and the first (name, domain, path) again with a new
\* value; the jar has two entries of that name.
C15_Witness ==
    /\ tkPc = "parsed"
    /\ tkOut.err = "none"
    /\ tkOut.jar = <<ArgCookieNewValue, ArgCookieOtherHost>>

\* C16: a call that is given a cookie jar leaves the caller's jar as it got
\* it, whether it returns or raises: after ems_auth_with_sso (and after
\* ems_get_info and ems_get_exam_schedule) the caller's jar holds the
\* cookies it held before the call.
C16_CallerJarUnchanged ==
    /\ ems.pc \in {"done", "failed"} => ems.cookie_jar = ems.given
    /\ info.pc \in {"done", "failed"} => info.cookie_jar = info.given
    /\ examCall.pc \in {"done", "failed"} => examCall.cookie_jar = examCall.given

\* The attempt's locals come from its own session: the jar holds the
\* cookies of its own responses and nothing else, the key pair is the one
\* of its first response, the execution token the one of its second, the
\* form is built from them, and the jar it returns is its session's.
OwnSession(st) ==
    /\ Len(st.requests) = Len(st.responses)
    /\ st.cookies = AccumulatedCookies(EmptyJar, st.responses)
    /\ st.pc \in {"key", "page", "redirect", "done"}
        => st.key_pair = ParseKeyPair(st.responses[1]).val
    /\ st.pc \in {"page", "redirect", "done"}
        => st.execution = ExtractExecution(st.responses[2]).val
    /\ Len(st.responses) >= 3
        => st.payload = LoginPayload(st.username, st.password,
                                     ParseKeyPair(st.responses[1]).val,
                                     ExtractExecution(st.responses[2]).val)
    /\ st.pc = "done" => st.result = AccumulatedCookies(EmptyJar, st.responses)

\* A step is a step of one attempt: the locals of the other stay.
OneAttemptSteps ==
    \A a \in DOMAIN sso :
        sso'[a] # sso[a] => \A b \in DOMAIN sso \ {a} : sso'[b] = sso[b]

\* C17: in every interleaving of two sso_auth attempts each attempt works
\* in its own session, with the key pair and the execution token it fetched
\* itself, and returns only cookies of its own responses; its state depends
\* on its own arguments and answers alone (two attempts with the same
\* arguments and the same answers are in the same state, whatever the
\* order of the steps), and a step of one attempt leaves the other alone.
C17_AttemptsIndependent ==
    /\ [](/\ \A a \in DOMAIN sso : OwnSession(sso[a])
          /\ \A a, b \in DOMAIN sso :
                (/\ sso[a].username = sso[b].username
                 /\ sso[a].password = sso[b].password
                 /\ sso[a].responses = sso[b].responses)
                    => sso[a] = sso[b])
    /\ [][OneAttemptSteps]_vars

\* Both attempts have returned, with different keys and different cookies.
C17_Witness ==
    /\ DOMAIN sso = PairAttempts
    /\ sso["a1"].pc = "done" /\ sso["a2"].pc = "done"
    /\ sso["a1"].key_pair # sso["a2"].key_pair
    /\ sso["a1"].result # EmptyJar /\ sso["a2"].result # EmptyJar
    /\ JarKeys(sso["a1"].result) \cap JarKeys(sso["a2"].result) = {}

\* The 2xx statuses.
Is2xx(status_code) == 200 <= status_code /\ status_code < 300

\* C18: ems_get_info raises whenever the status of the response is not 2xx
\* (a 3xx redirect to the login page of a stale session included) and
\* parses and returns the student's information only for a 2xx response.
C18_RaisesUnless2xx ==
    (info.pc \in {"done", "failed"})
        => LET response == info.responses[1]
           IN  /\ ~Is2xx(response.status_code)
                    => /\ info.pc = "failed"
                       /\ info.error.type # "none"
                       /\ info.result = <<>>
               /\ info.pc = "done"
                    => /\ Is2xx(response.status_code)
                       /\ info.result = parse_student_info(response.text)

\* C19: the request of ems_get_exam_schedule carries the caller's year when
\* a year is given and the caller's term when a term is given, whatever the
\* other argument is; the year is inferred from the date only when it is
\* None, and so is the term.
C19_GivenYearAndTermSent ==
    (examCall.pc \in {"done", "failed"})
        => LET year == IF examCall.year.some THEN examCall.year.v
                       ELSE get_term_year(examCall.today)
               term == IF examCall.term.some THEN examCall.term.v
                       ELSE get_term_id(examCall.today)
           IN  HasPrefix(examCall.payload,
                         <<"x", "n", "m", "=">> \o IntToDec(year)
                            \o <<"&", "x", "q", "m", "=">> \o IntToDec(term)
                            \o <<"&">>)

\* The key a body of the key endpoint serves, in decimal: the toy key
\* (e = 17, n = 3233, sent as "11" and "CA1") or e = 3, n = 33.
ServedKey(text) ==
    IF text = KeyBody(<<"C", "A", "1">>, <<"1", "1">>)
    THEN [e |-> 17, n |-> 3233]
    ELSE [e |-> 3, n |-> 33]

\* C20: the password field of the login POST of an attempt is
\* rsa_encrypt(e, n, password) for the (e, n) that the key endpoint served
\* in the first request of that same attempt; an attempt starts without a
\* key pair, fetches the key before anything else, and builds no form
\* before its own POST.
C20_PasswordUnderOwnKey ==
    \A a \in DOMAIN sso :
        LET st == sso[a]
        IN  /\ st.pc = "start" => st.key_pair = NoKeyPair /\ st.requests = <<>>
            /\ Len(st.requests) < 3 => st.payload = NoPayload
            /\ Len(st.requests) >= 3
                => /\ st.requests[1] = Request("GET", key_url, TRUE)
                   /\ st.requests[3] = Request("POST", login_url, FALSE)
                   /\ st.responses[1].text \in HexKeyBodies
                   /\ st.payload.password
                        = rsa_encrypt(ServedKey(st.responses[1].text).e,
                                      ServedKey(st.responses[1].text).n,
                                      st.password)

\* Two attempts with the same password have posted it under the different
\* keys they were served, as different ciphertexts.
C20_Witness ==
    /\ DOMAIN sso = PairAttempts
    /\ Len(sso["a1"].requests) >= 3 /\ Len(sso["a2"].requests) >= 3
    /\ sso["a1"].password = sso["a2"].password
    /\ sso["a1"].responses[1].text # sso["a2"].responses[1].text
    /\ sso["a1"].payload.password # sso["a2"].payload.password

\* C22: a login POST answered 302 without a Location header is no redirect
\* to follow: the attempt fails with the login-failed error and issues no
\* further request; a 302 whose Location is empty fails the prefix tests
\* with the ticket-not-found error, and no further request is issued either.
C22_RedirectWithoutTarget ==
    \A a \in Attempts :
        LET r == sso[a].responses
        IN  (Len(r) >= 3 /\ r[3].status_code = 302)
                => /\ ~r[3].has_location
                        => /\ sso[a].pc = "failed"
                           /\ LoginFailedError(sso[a].error)
                           /\ Len(sso[a].requests) = 3
                           /\ sso[a].result = EmptyJar
                   /\ (r[3].has_location /\ r[3].location = <<>>)
                        => /\ sso[a].pc = "failed"
                           /\ TicketNotFoundError(sso[a].error)
                           /\ sso[a].redirect_url = <<>>
                           /\ Len(sso[a].requests) = 3
                           /\ sso[a].result = EmptyJar

\* A login POST has been answered 302 with an empty Location header, and
\* the attempt has ended with the ticket-not-found error.
C22_Witness ==
    \E a \in Attempts :
        /\ Len(sso[a].responses) = 3
        /\ sso[a].responses[3].status_code = 302
        /\ sso[a].responses[3].has_location
        /\ sso[a].responses[3].location = <<>>
        /\ sso[a].pc = "failed"
        /\ TicketNotFoundError(sso[a].error)

\* C23: the outcome of ems_auth_with_sso follows from the final URL alone
\* and not from the status of the final response: the call returns the
\* cookie set exactly when the final URL starts with the homepage prefix,
\* with a final status of 200 and with any other one, and fails otherwise.
C23_StatusIgnored ==
    ems.pc \in {"done", "failed"}
        => LET final == ems.responses[Len(ems.responses)]
           IN  /\ (ems.pc = "done") <=> HasPrefix(final.url, homepage_url_prefix)
               /\ (ems.pc = "failed") <=> ~HasPrefix(final.url, homepage_url_prefix)
               /\ \A status_code \in Statuses :
                    LET other == [final EXCEPT !.status_code = status_code]
                    IN  /\ other \in EmsResponses
                        /\ ems.pc = "done"
                            => ems.result =
                                 AccumulatedCookies(ems.given, <<other>>)
                        /\ ems.pc = "failed" => ems.error.url = other.url

\* An exchange whose chain ended on the homepage with status 500 returned
\* the cookie the chain had set.
C23_Witness ==
    /\ ems.pc = "done"
    /\ ems.responses[1].status_code = 500
    /\ ems.responses[1].url = homepage_url_prefix \o <<"?", "j", "=", "1">>
    /\ ems.given = EmptyJar
    /\ Len(ems.result) = 1

\* C24: re-encoding is stable: a token of serialize_token that is decoded
\* with its own flag and serialized again with that flag is reproduced
\* character for character, the decoded jar holding the same records in the
\* same order as the jar the token was made from.
C24_ReencodingStable ==
    /\ (tkPc \in {"decoded", "reencoded"} /\ tkDecFlag = tkFlag)
            => /\ tkOut.err = "none"
               /\ Len(tkOut.jar) = Len(tkJar)
               /\ \A i \in 1..Len(tkJar) : tkOut.jar[i] = tkJar[i]
    /\ (tkPc = "reencoded" /\ tkDecFlag = tkFlag) => tkToken2 = tkToken

\* A compressed token of two cookies, the second one of another domain and
\* a value with a quote and a backslash, has been decoded and re-encoded.
C24_Witness ==
    /\ tkPc = "reencoded" /\ tkFlag /\ tkDecFlag
    /\ Len(tkJar) = 2
    /\ tkJar[1].domain # tkJar[2].domain
    /\ tkJar[2].value = <<"\"", "\\">>
    /\ Len(tkToken2) > 0

\* The value of the query-string field `name`, or <<"?">> when the text has
\* no such field.
FieldOf(text, name) ==
    LET parts == SplitOn(text, "&")
        hits == {i \in 1..Len(parts) : StartsWith(parts[i], name \o <<"=">>)}
    IN  IF hits = {} THEN <<"?">>
        ELSE LET part == parts[CHOOSE i \in hits : \A j \in hits : i <= j]
             IN  SubSeq(part, Len(name) + 2, Len(part))

\* The number a decimal numeral writes.
RECURSIVE DecValue(_)
DecValue(text) ==
    IF text = <<>> THEN 0
    ELSE 10 * DecValue(SubSeq(text, 1, Len(text) - 1))
         + (CHOOSE d \in 0..9 : DecDigits[d + 1] = text[Len(text)])

RECURSIVE Pow2(_)
Pow2(k) == IF k = 0 THEN 1 ELSE 2 * Pow2(k - 1)

\* Bit k of m is set.
BitSet(m, k) == (m \div Pow2(k)) % 2 = 1

\* m is the mask of the values of ls: bit (i - 1) is set exactly for the
\* values i >= 1 that occur in ls.
MaskOf(m, ls) ==
    /\ 0 <= m /\ m < Pow2(30)
    /\ \A k \in 0..29 : BitSet(m, k) <=> \E j \in 1..Len(ls) : ls[j] = k + 1

ValuesOf(ls) == {ls[j] : j \in 1..Len(ls)}

\* C21: _bits_of_list(ls) is the integer whose bit (i - 1) is set exactly
\* for the values i >= 1 of ls: 0 for the empty list, the same for every
\* list of the same values whatever their order and their repetitions; the
\* query string carries the mask of the weeks as zcd and the mask of the
\* sections as jcd, in decimal.
C21_BitsOfList ==
    LET weeks == roomCall.query_data.weeks
        sections == roomCall.query_data.sections
    IN  (roomCall.pc \in {"done", "failed"}
            /\ \A i \in ValuesOf(weeks) \cup ValuesOf(sections) : i >= 1)
            => /\ ~Failed(bits_of_list(weeks))
               /\ MaskOf(bits_of_list(weeks).val, weeks)
               /\ MaskOf(bits_of_list(sections).val, sections)
               /\ weeks = <<>> => bits_of_list(weeks).val = 0
               /\ \A other \in ListsUpTo(WeekValues, MaxListLen) :
                    ValuesOf(other) = ValuesOf(weeks)
                        => bits_of_list(other) = bits_of_list(weeks)
               /\ Len(roomCall.requests) = 1
               /\ MaskOf(DecValue(FieldOf(roomCall.payload, <<"z", "c", "d">>)), weeks)
               /\ MaskOf(DecValue(FieldOf(roomCall.payload, <<"j", "c", "d">>)), sections)

\* A query of week 20 listed twice and of the sections 11 and 1 has been
\* sent with zcd=524288 and jcd=1025.
C21_Witness ==
    /\ roomCall.pc = "done"
    /\ roomCall.query_data.weeks = <<20, 20>>
    /\ roomCall.query_data.sections = <<11, 1>>
    /\ FieldOf(roomCall.payload, <<"z", "c", "d">>) = <<"5", "2", "4", "2", "8", "8">>
    /\ FieldOf(roomCall.payload, <<"j", "c", "d">>) = <<"1", "0", "2", "5">>

\* The logical term of a call: the term the caller gave, or the term of
\* the date (months 2 to 7 are the second term).
LogicalTerm(term, today) ==
    IF term.some THEN term.v
    ELSE IF 2 <= today.month /\ today.month <= 7 THEN 2 ELSE 1

\* The EMS code of a logical term.
TermCode(logical) == IF logical = 1 THEN <<"3">> ELSE <<"1", "2">>

\* C26: for one logical term the course-schedule, the exam-schedule and the
\* classroom-availability request carry the same EMS term code as xqm: 3
\* for the first term and 12 for the second, for a term the caller gave and
\* for a term inferred from the date.
C26_SameTermCode ==
    LET FieldTerm == <<"x", "q", "m">>
    IN  /\ Len(courseCall.requests) = 1
            => FieldOf(courseCall.payload, FieldTerm)
                 = TermCode(LogicalTerm(courseCall.term, courseCall.today))
        /\ Len(examCall.requests) = 1
            => FieldOf(examCall.payload, FieldTerm)
                 = TermCode(LogicalTerm(examCall.term, examCall.today))
        /\ Len(roomCall.requests) = 1
            => FieldOf(roomCall.payload, FieldTerm)
                 = TermCode(roomCall.query_data.term)
        /\ (Len(courseCall.requests) = 1 /\ Len(examCall.requests) = 1)
            => FieldOf(courseCall.payload, FieldTerm)
                 = FieldOf(examCall.payload, FieldTerm)

\* The call whose state is `call` has ended with an error at every 3xx
\* answer it has got: that request is its last one, and it returned nothing.
RedirectEnds(call) ==
    \A k \in 1..Len(call.responses) :
        (300 <= call.responses[k].status_code /\ call.responses[k].status_code < 400)
            => /\ call.pc = "failed"
               /\ call.error # NoError
               /\ Len(call.requests) = k
               /\ call.result = <<>>

\* C25: in ems_get_classsroom_avaliability, ems_get_gpa and
\* ems_download_transcript a 3xx answer to any request ends the operation
\* with an error: no later request is issued and nothing is returned.
C25_RedirectEndsOperation ==
    /\ RedirectEnds(roomCall)
    /\ RedirectEnds(gpaCall)
    /\ RedirectEnds(pdfCall)

=============================================================================
